---- MODULE Spec2Model ----
(***************************************************************************)
(* Model of the audit-event delivery subsystem of sapcc/go-bits            *)
(* (package audittools): the three BackingStore implementations            *)
(* (InMemoryBackingStore, FileBackingStore, SQLBackingStore) and the       *)
(* audit trail loop auditTrail.Commit with drainBackingStore.              *)
(*                                                                         *)
(* The store is one record `store`; `variant` selects the implementation.  *)
(* Store operations are operators from a store record (and the injected    *)
(* fault of this call) to a result record holding the new store record and *)
(* the values the Go method returns.  Two specifications use them:         *)
(*   Spec       the loop of auditTrail.Commit, producers and the broker;   *)
(*   StoreSpec  tasks that call the BackingStore methods directly.         *)
(*                                                                         *)
(* Abstractions: an event is its ID and the length of its JSON encoding;   *)
(* time.Now().UnixNano() is a strictly increasing counter; a failed        *)
(* f.Write appends no bytes (torn lines are not modelled); the Prometheus   *)
(* counters and gauges are left out.                                       *)
(***************************************************************************)
EXTENDS Integers, Sequences, FiniteSets, TLC

\* ---------------------------------------------------------------- bounds
NumEvents == 3
NumWrites == 2
MaxEventSize == 2
ChanCap == 1
MaxGarbage == 1
MemMaxEvents == 2
SqlMaxEvents == 2
SqlBatchSize == 1
FileMaxFileSize == 3
FileMaxTotalSize == 3
NumTasks == 2
MaxNameLen == 2
EventsPerTask == 2
MaxUpdates == 2
MaxDials == 4
MaxSends == 4

Variants == {"memory", "file", "sql"}

EventIds == 1..NumEvents
Events == [id : EventIds, size : 1..MaxEventSize]

\* ------------------------------------------------------- sequence helpers
RECURSIVE SumSeq(_)
SumSeq(s) == IF s = <<>> THEN 0 ELSE Head(s) + SumSeq(Tail(s))

Range(s) == {s[i] : i \in DOMAIN s}

SetMin(S) == CHOOSE x \in S : \A y \in S : x <= y

RECURSIVE SelectSeqBy(_, _)
\* the subsequence of s whose elements are in the set keep
SelectSeqBy(s, keep) ==
    IF s = <<>> THEN <<>>
    ELSE IF Head(s) \in keep THEN <<Head(s)>> \o SelectSeqBy(Tail(s), keep)
         ELSE SelectSeqBy(Tail(s), keep)

\* ------------------------------------------------------------- JSON codec
\* json.Marshal(event): the encoded line carries the ID and has the
\* event's encoded length.
Marshal(e) == [kind |-> "json", id |-> e.id, len |-> e.size]

\* a line that is not the encoding of an event (g identifies its raw bytes)
Garbage(g) == [kind |-> "garbage", id |-> g, len |-> 1]

\* json.Unmarshal(line, &e): fails on anything that is not an encoded event.
Unmarshal(line) ==
    IF line.kind = "json"
    THEN [ok |-> TRUE, event |-> [id |-> line.id, size |-> line.len]]
    ELSE [ok |-> FALSE, event |-> [id |-> 0, size |-> 0]]

\* bytes a line takes in a file: the encoding plus '\n'
LineSize(line) == line.len + 1

\* bufio.NewScanner(f) reads lines into a buffer of bufio.MaxScanTokenSize
\* (64 KiB) at most; in the model the largest events do not fit
MaxScanTokenSize == MaxEventSize

\* scanner.Scan() stops with bufio.ErrTooLong at a line that, with its
\* '\n', does not fit the buffer
TooLong(line) == LineSize(line) > MaxScanTokenSize

RECURSIVE ScannedPrefix(_)
\* the lines scanner.Scan() delivers: those before the first too long one
ScannedPrefix(lines) ==
    IF lines = <<>> \/ TooLong(Head(lines)) THEN <<>>
    ELSE <<Head(lines)>> \o ScannedPrefix(Tail(lines))

RECURSIVE FileSizeOf(_)
FileSizeOf(lines) ==
    IF lines = <<>> THEN 0 ELSE LineSize(Head(lines)) + FileSizeOf(Tail(lines))

\* ------------------------------------------------------------ store record
NoCommit == [kind |-> "none", path |-> 0, ids |-> {}]

\* Option[int64]: None, or Some(n) whose Unpack() is (n, true)
None == [some |-> FALSE, val |-> 0]
Some(n) == [some |-> TRUE, val |-> n]

EmptyStore ==
    [ events          |-> <<>>,   \* InMemoryBackingStore.events
      MaxTotalSize    |-> Some(FileMaxTotalSize), \* FileBackingStore.MaxTotalSize
      files           |-> [n \in {} |-> <<>>], \* event files: name -> lines
      currentFile     |-> 0,      \* FileBackingStore.currentFile, 0 is ""
      cachedTotalSize |-> 0,      \* FileBackingStore.cachedTotalSize
      deadLetters     |-> {},     \* records of the dead-letter files
      rows            |-> <<>>,   \* SQL table, in insertion order
      nextId          |-> 1,      \* BIGSERIAL sequence
      clock           |-> 0 ]     \* time.Now() / NOW()

\* ------------------------------------------------- InMemoryBackingStore
\* mutant: Write refuses only a buffer that is already over the cap
MemWrite_OverCap(st, e) ==
    IF Len(st.events) > MemMaxEvents
    THEN [st |-> st, err |-> "full"]
    ELSE [st |-> [st EXCEPT !.events = Append(@, e)], err |-> "nil"]

MemWrite(st, e) ==
    IF Len(st.events) >= MemMaxEvents
    THEN [st |-> st, err |-> "full"]
    ELSE [st |-> [st EXCEPT !.events = Append(@, e)], err |-> "nil"]

\* mutant: ReadBatch hands the buffer out and empties it at once
MemReadBatch_Destructive(st) ==
    IF Len(st.events) = 0
    THEN [st |-> st, events |-> <<>>, commit |-> NoCommit, err |-> "nil"]
    ELSE [st |-> [st EXCEPT !.events = <<>>], events |-> st.events,
          commit |-> [kind |-> "mem", path |-> 0, ids |-> {}], err |-> "nil"]

MemReadBatch(st) ==
    IF Len(st.events) = 0
    THEN [st |-> st, events |-> <<>>, commit |-> NoCommit, err |-> "nil"]
    ELSE [st |-> st, events |-> st.events,
          commit |-> [kind |-> "mem", path |-> 0, ids |-> {}], err |-> "nil"]

\* the commit closure of InMemoryBackingStore.ReadBatch: s.events = nil
MemCommit(st) ==
    [st |-> [st EXCEPT !.events = <<>>], err |-> "nil"]

\* sets the size gauge only
MemUpdateMetrics(st) == [st |-> st, err |-> "nil"]

\* ----------------------------------------------------- FileBackingStore
PutFile(files, n, lines) ==
    [m \in (DOMAIN files) \cup {n} |-> IF m = n THEN lines ELSE files[m]]

RemoveFile(files, n) == [m \in (DOMAIN files) \ {n} |-> files[m]]

\* getFileSize: the size of the file, 0 if it cannot be determined
getFileSize(st, path) ==
    IF path \in DOMAIN st.files THEN FileSizeOf(st.files[path]) ELSE 0

\* listFiles: the event files sorted by name; dead-letter files are not
\* event files (isEventFile) and are kept apart in st.deadLetters.
listFiles(st) == DOMAIN st.files

\* the names the store gives its files, as the pieces of the format string:
\* "audit-events-%d.jsonl" and "audit-events-deadletter-%d.jsonl"
EventFileName(n) ==
    [prefix |-> "audit-events-", mid |-> "", stamp |-> n, suffix |-> ".jsonl"]

DeadLetterName(n) ==
    [prefix |-> "audit-events-", mid |-> "deadletter-", stamp |-> n,
     suffix |-> ".jsonl"]

\* os.ReadDir(s.Directory): an entry for every event file and for every
\* dead-letter file, which holds one record; none is a directory
ReadDir(st) ==
    {[name |-> EventFileName(p), isDir |-> FALSE, size |-> FileSizeOf(st.files[p])] :
        p \in DOMAIN st.files}
    \cup
    {[name |-> DeadLetterName(d.source_file * (MaxGarbage + 1) + d.raw_data),
      isDir |-> FALSE, size |-> 1] : d \in st.deadLetters}

\* mutant: every "audit-events-*.jsonl" file is an event file
isEventFile_AnyName(entry) ==
    /\ ~entry.isDir
    /\ entry.name.prefix = "audit-events-"
    /\ entry.name.suffix = ".jsonl"

\* isEventFile: a regular file "audit-events-*.jsonl" whose name does not
\* contain "deadletter"
isEventFile(entry) ==
    /\ ~entry.isDir
    /\ entry.name.prefix = "audit-events-"
    /\ entry.name.mid # "deadletter-"
    /\ entry.name.suffix = ".jsonl"

\* the entries listFiles keeps
EventEntries(st) == {e \in ReadDir(st) : isEventFile(e)}

RECURSIVE SumSizes(_)
SumSizes(entries) ==
    IF entries = {} THEN 0
    ELSE LET e == CHOOSE x \in entries : TRUE
         IN e.size + SumSizes(entries \ {e})

RECURSIVE calculateTotalSize(_, _)
calculateTotalSize(st, files) ==
    IF files = {} THEN 0
    ELSE LET f == SetMin(files)
         IN getFileSize(st, f) + calculateTotalSize(st, files \ {f})

\* mutant: a file is rotated only once it is larger than max_file_size
needsRotation_Strict(st, path, fault) ==
    IF path \notin DOMAIN st.files THEN [rotate |-> TRUE, err |-> "nil"]
    ELSE IF fault = "stat" THEN [rotate |-> FALSE, err |-> "stat"]
    ELSE [rotate |-> FileSizeOf(st.files[path]) > FileMaxFileSize, err |-> "nil"]

needsRotation(st, path, fault) ==
    IF path \notin DOMAIN st.files THEN [rotate |-> TRUE, err |-> "nil"]
    ELSE IF fault = "stat" THEN [rotate |-> FALSE, err |-> "stat"]
    ELSE [rotate |-> FileSizeOf(st.files[path]) >= FileMaxFileSize, err |-> "nil"]

\* newFileName: audit-events-<now>.jsonl; names are compared as numbers
newFileName(st) == st.clock + 1

getCurrentOrRotatedFile(st, fault) ==
    IF st.currentFile = 0
    THEN [file |-> newFileName(st), clock |-> st.clock + 1, err |-> "nil"]
    ELSE LET r == needsRotation(st, st.currentFile, fault)
         IN IF r.err # "nil" THEN [file |-> 0, clock |-> st.clock, err |-> r.err]
            ELSE IF r.rotate
                 THEN [file |-> newFileName(st), clock |-> st.clock + 1, err |-> "nil"]
                 ELSE [file |-> st.currentFile, clock |-> st.clock, err |-> "nil"]

\* mutant: the limit check lets a store through that is exactly at the limit
checkTotalSizeLimit_OffByOne(st, maxTotalSize) ==
    IF st.cachedTotalSize <= maxTotalSize THEN "nil" ELSE "full"

checkTotalSizeLimit(st, maxTotalSize) ==
    IF st.cachedTotalSize < maxTotalSize THEN "nil" ELSE "full"

\* mutant: a failed f.Sync() is ignored
writeEventToFile_NoSyncCheck(st, path, e, fault) ==
    LET old      == IF path \in DOMAIN st.files THEN st.files[path] ELSE <<>>
        created  == [st EXCEPT !.files = PutFile(@, path, old)]
        appended == [st EXCEPT !.files = PutFile(@, path, Append(old, Marshal(e)))]
    IN CASE fault = "open"    -> [st |-> st, size |-> 0, err |-> "open", done |-> <<>>]
         [] fault = "marshal" -> [st |-> created, size |-> 0, err |-> "marshal",
                                  done |-> <<"open">>]
         [] fault = "io"      -> [st |-> created, size |-> 0, err |-> "io",
                                  done |-> <<"open", "marshal">>]
         [] fault = "close"   -> [st |-> appended, size |-> 0, err |-> "close",
                                  done |-> <<"open", "marshal", "write", "sync">>]
         [] fault = "sync"    -> [st |-> appended, size |-> Marshal(e).len + 1,
                                  err |-> "nil",
                                  done |-> <<"open", "marshal", "write", "close">>]
         [] OTHER -> [st |-> appended, size |-> Marshal(e).len + 1, err |-> "nil",
                      done |-> <<"open", "marshal", "write", "sync", "close">>]

\* done: the calls of writeEventToFile that returned without an error, in
\* their order (os.OpenFile, json.Marshal, f.Write, f.Sync, f.Close)
writeEventToFile(st, path, e, fault) ==
    LET old      == IF path \in DOMAIN st.files THEN st.files[path] ELSE <<>>
        created  == [st EXCEPT !.files = PutFile(@, path, old)]
        appended == [st EXCEPT !.files = PutFile(@, path, Append(old, Marshal(e)))]
    IN CASE fault = "open"    -> [st |-> st, size |-> 0, err |-> "open", done |-> <<>>]
         [] fault = "marshal" -> [st |-> created, size |-> 0, err |-> "marshal",
                                  done |-> <<"open">>]
         [] fault = "io"      -> [st |-> created, size |-> 0, err |-> "io",
                                  done |-> <<"open", "marshal">>]
         [] fault = "sync"    -> [st |-> appended, size |-> 0, err |-> "sync",
                                  done |-> <<"open", "marshal", "write">>]
         [] fault = "close"   -> [st |-> appended, size |-> 0, err |-> "close",
                                  done |-> <<"open", "marshal", "write", "sync">>]
         [] OTHER -> [st |-> appended, size |-> Marshal(e).len + 1, err |-> "nil",
                      done |-> <<"open", "marshal", "write", "sync", "close">>]

\* mutant: the limit is checked after the event was appended
FileWrite_CheckAfterWrite(st, e, fault) ==
    LET tgt == getCurrentOrRotatedFile(st, fault)
    IN IF tgt.err # "nil"
       THEN [st |-> st, err |-> tgt.err, done |-> <<>>, counted |-> FALSE]
       ELSE LET st1 == [st EXCEPT !.currentFile = tgt.file, !.clock = tgt.clock]
                w == writeEventToFile(st1, tgt.file, e, fault)
            IN IF w.err # "nil"
               THEN [st |-> w.st, err |-> w.err, done |-> w.done, counted |-> FALSE]
               ELSE IF st1.MaxTotalSize.some /\ st1.MaxTotalSize.val > 0
                       /\ checkTotalSizeLimit(st1, st1.MaxTotalSize.val) # "nil"
               THEN [st |-> w.st, err |-> "full", done |-> w.done, counted |-> FALSE]
               ELSE [st |-> [w.st EXCEPT !.cachedTotalSize = @ + w.size],
                     err |-> "nil", done |-> w.done, counted |-> TRUE]

\* mutant: the limit is enforced whenever it is set, 0 included
FileWrite_ZeroIsLimit(st, e, fault) ==
    LET tgt == getCurrentOrRotatedFile(st, fault)
    IN IF tgt.err # "nil"
       THEN [st |-> st, err |-> tgt.err, done |-> <<>>, counted |-> FALSE]
       ELSE LET st1 == [st EXCEPT !.currentFile = tgt.file, !.clock = tgt.clock]
            IN IF st1.MaxTotalSize.some
                  /\ checkTotalSizeLimit(st1, st1.MaxTotalSize.val) # "nil"
               THEN [st |-> st1, err |-> "full", done |-> <<>>, counted |-> FALSE]
               ELSE LET w == writeEventToFile(st1, tgt.file, e, fault)
                    IN IF w.err # "nil"
                       THEN [st |-> w.st, err |-> w.err, done |-> w.done,
                             counted |-> FALSE]
                       ELSE [st |-> [w.st EXCEPT !.cachedTotalSize = @ + w.size],
                             err |-> "nil", done |-> w.done, counted |-> TRUE]

\* done: the calls of writeEventToFile that had returned without an error
\* when Write returned; counted: s.writeCounter.Inc() was reached
FileWrite(st, e, fault) ==
    LET tgt == getCurrentOrRotatedFile(st, fault)
    IN IF tgt.err # "nil"
       THEN [st |-> st, err |-> tgt.err, done |-> <<>>, counted |-> FALSE]
       ELSE LET st1 == [st EXCEPT !.currentFile = tgt.file, !.clock = tgt.clock]
            IN IF st1.MaxTotalSize.some /\ st1.MaxTotalSize.val > 0
                  /\ checkTotalSizeLimit(st1, st1.MaxTotalSize.val) # "nil"
               THEN [st |-> st1, err |-> "full", done |-> <<>>, counted |-> FALSE]
               ELSE LET w == writeEventToFile(st1, tgt.file, e, fault)
                    IN IF w.err # "nil"
                       THEN [st |-> w.st, err |-> w.err, done |-> w.done,
                             counted |-> FALSE]
                       ELSE [st |-> [w.st EXCEPT !.cachedTotalSize = @ + w.size],
                             err |-> "nil", done |-> w.done, counted |-> TRUE]

RECURSIVE ParsedEvents_StopAtCorrupted(_)
\* mutant: the scan loop breaks at the first line that does not parse
ParsedEvents_StopAtCorrupted(lines) ==
    IF lines = <<>> THEN <<>>
    ELSE LET u == Unmarshal(Head(lines))
         IN IF u.ok THEN <<u.event>> \o ParsedEvents_StopAtCorrupted(Tail(lines))
            ELSE <<>>

RECURSIVE ParsedEvents(_)
\* the events of the lines that parse, in file order
ParsedEvents(lines) ==
    IF lines = <<>> THEN <<>>
    ELSE LET u == Unmarshal(Head(lines))
         IN IF u.ok THEN <<u.event>> \o ParsedEvents(Tail(lines))
            ELSE ParsedEvents(Tail(lines))

CorruptedLines(lines) == {l \in Range(lines) : ~Unmarshal(l).ok}

\* writeDeadLetter: one record with the raw bytes and the source file name
writeDeadLetter(st, line, sourceFile) ==
    [st EXCEPT !.deadLetters = @ \cup {[source_file |-> sourceFile, raw_data |-> line.id]}]

RECURSIVE handleCorruptedEvents(_, _, _, _)
\* handleCorruptedEvent for every corrupted line of the file; dlFail: the
\* dead-letter write fails, which is logged and counted only
handleCorruptedEvents(st, lines, sourceFile, dlFail) ==
    IF lines = {} THEN st
    ELSE LET l == CHOOSE x \in lines : TRUE
             st1 == IF dlFail THEN st ELSE writeDeadLetter(st, l, sourceFile)
         IN handleCorruptedEvents(st1, lines \ {l}, sourceFile, dlFail)

readEventsFromFile(st, path, fault, dlFail) ==
    IF fault = "open" \/ path \notin DOMAIN st.files
    THEN [st |-> st, events |-> <<>>, err |-> "open"]
    ELSE LET lines   == st.files[path]
             scanned == ScannedPrefix(lines)
             st1     == handleCorruptedEvents(st, CorruptedLines(scanned), path, dlFail)
         IN IF fault = "scan"
            THEN [st |-> st1, events |-> <<>>, err |-> "scan"]
            ELSE IF Len(scanned) < Len(lines)
            THEN [st |-> st1, events |-> <<>>, err |-> "toolong"]
            ELSE [st |-> st1, events |-> ParsedEvents(lines), err |-> "nil"]

\* mutant: ReadBatch leaves the current file open for writing
forceRotation_Keep(st, oldest) == st

\* "if oldest == s.currentFile { s.currentFile = "" }" of ReadBatch
forceRotation(st, oldest) ==
    IF oldest = st.currentFile THEN [st EXCEPT !.currentFile = 0] ELSE st

FileReadBatch(st, fault, dlFail) ==
    IF fault = "list"
    THEN [st |-> st, events |-> <<>>, commit |-> NoCommit, err |-> "list"]
    ELSE IF listFiles(st) = {}
    THEN [st |-> st, events |-> <<>>, commit |-> NoCommit, err |-> "nil"]
    ELSE LET oldest == SetMin(listFiles(st))
             st1 == forceRotation(st, oldest)
             r == readEventsFromFile(st1, oldest, fault, dlFail)
         IN IF r.err # "nil"
            THEN [st |-> r.st, events |-> <<>>, commit |-> NoCommit, err |-> r.err]
            ELSE [st |-> r.st, events |-> r.events,
                  commit |-> [kind |-> "file", path |-> oldest, ids |-> {}],
                  err |-> "nil"]

\* the closure of makeCommitFunc(path)
FileCommit(st, tok, fault) ==
    LET fileSize == getFileSize(st, tok.path)
    IN IF fault = "remove" \/ tok.path \notin DOMAIN st.files
       THEN [st |-> st, err |-> "remove"]
       ELSE [st |-> [st EXCEPT !.files = RemoveFile(@, tok.path),
                               !.cachedTotalSize =
                                   IF fileSize > 0 THEN @ - fileSize ELSE @],
             err |-> "nil"]

\* s.sizeGauge.Set and s.fileGauge.Set of UpdateMetrics
FileGauges(st) ==
    [size |-> calculateTotalSize(st, listFiles(st)),
     files |-> Cardinality(listFiles(st))]

FileUpdateMetrics(st, fault) ==
    IF fault = "list" THEN [st |-> st, err |-> "list"]
    ELSE LET files == listFiles(st)
             totalSize == calculateTotalSize(st, files)
         IN [st |-> [st EXCEPT !.cachedTotalSize = totalSize], err |-> "nil"]

\* ------------------------------------------------------ SQLBackingStore
\* row a sorts before row b under ORDER BY created_at ASC, id ASC
\* mutant: ORDER BY created_at DESC, id DESC
RowBefore_Desc(a, b) ==
    \/ a.created_at > b.created_at
    \/ a.created_at = b.created_at /\ a.id > b.id

RowBefore(a, b) ==
    \/ a.created_at < b.created_at
    \/ a.created_at = b.created_at /\ a.id < b.id

RECURSIVE OrderedRows(_)
OrderedRows(rows) ==
    IF rows = {} THEN <<>>
    ELSE LET first == CHOOSE r \in rows : \A o \in rows \ {r} : RowBefore(r, o)
         IN <<first>> \o OrderedRows(rows \ {first})

countEvents(st) == Len(st.rows)

\* INSERT INTO <table> (event_data) VALUES ($1); id is a serial column and
\* created_at defaults to NOW(); dt: how far NOW() has advanced since the
\* previous statement
SqlInsert(st, e, dt) ==
    [st EXCEPT !.rows = Append(@, [id |-> st.nextId,
                                   event_data |-> Marshal(e),
                                   created_at |-> st.clock + dt]),
               !.nextId = @ + 1,
               !.clock = @ + dt]

\* mutant: the table is full only when it holds more than max_events rows
SqlAtLimit_Above(count) == count > SqlMaxEvents

\* "if count >= int64(maxEvents)" of SQLBackingStore.Write
SqlAtLimit(count) == count >= SqlMaxEvents

SqlWrite(st, e, fault, dt) ==
    IF fault = "count" THEN [st |-> st, err |-> "count"]
    ELSE IF SqlAtLimit(countEvents(st)) THEN [st |-> st, err |-> "full"]
    ELSE IF fault = "marshal" THEN [st |-> st, err |-> "marshal"]
    ELSE IF fault = "insert" THEN [st |-> st, err |-> "insert"]
    ELSE [st |-> SqlInsert(st, e, dt), err |-> "nil"]

\* mutant: no "if len(events) == 0 { return nil, nil, nil }"
SqlReadBatch_NoEmptyCheck(st, fault) ==
    IF fault = "query"
    THEN [st |-> st, events |-> <<>>, commit |-> NoCommit, err |-> "query"]
    ELSE LET ordered == OrderedRows(Range(st.rows))
             page    == SubSeq(ordered, 1, IF Len(ordered) < SqlBatchSize
                                           THEN Len(ordered) ELSE SqlBatchSize)
             good    == SelectSeq(page, LAMBDA r : Unmarshal(r.event_data).ok)
             events  == [i \in DOMAIN good |-> Unmarshal(good[i].event_data).event]
             eventIDs == {good[i].id : i \in DOMAIN good}
         IN IF fault \in {"scan", "rows"}
            THEN [st |-> st, events |-> <<>>, commit |-> NoCommit, err |-> fault]
            ELSE [st |-> st, events |-> events,
                  commit |-> [kind |-> "sql", path |-> 0, ids |-> eventIDs],
                  err |-> "nil"]

SqlReadBatch(st, fault) ==
    IF fault = "query"
    THEN [st |-> st, events |-> <<>>, commit |-> NoCommit, err |-> "query"]
    ELSE LET ordered == OrderedRows(Range(st.rows))
             page    == SubSeq(ordered, 1, IF Len(ordered) < SqlBatchSize
                                           THEN Len(ordered) ELSE SqlBatchSize)
             good    == SelectSeq(page, LAMBDA r : Unmarshal(r.event_data).ok)
             events  == [i \in DOMAIN good |-> Unmarshal(good[i].event_data).event]
             eventIDs == {good[i].id : i \in DOMAIN good}
         IN IF fault \in {"scan", "rows"}
            THEN [st |-> st, events |-> <<>>, commit |-> NoCommit, err |-> fault]
            ELSE IF Len(events) = 0
            THEN [st |-> st, events |-> <<>>, commit |-> NoCommit, err |-> "nil"]
            ELSE [st |-> st, events |-> events,
                  commit |-> [kind |-> "sql", path |-> 0, ids |-> eventIDs],
                  err |-> "nil"]

\* mutant: the DELETE has no WHERE clause
SqlCommit_DeleteAll(st, tok, fault) ==
    IF tok.ids = {} THEN [st |-> st, err |-> "nil"]
    ELSE IF fault = "delete" THEN [st |-> st, err |-> "delete"]
    ELSE [st |-> [st EXCEPT !.rows = <<>>], err |-> "nil"]

\* the closure of makeCommitFunc(eventIDs): DELETE ... WHERE id = ANY($1)
SqlCommit(st, tok, fault) ==
    IF tok.ids = {} THEN [st |-> st, err |-> "nil"]
    ELSE IF fault = "delete" THEN [st |-> st, err |-> "delete"]
    ELSE [st |-> [st EXCEPT !.rows = SelectSeq(@, LAMBDA r : r.id \notin tok.ids)],
          err |-> "nil"]

SqlUpdateMetrics(st, fault) ==
    IF fault = "count" THEN [st |-> st, err |-> "count"]
    ELSE [st |-> st, err |-> "nil"]

\* --------------------------------- SQLBackingStore: Init and Close
\* a table name is a string over these characters: a letter, a digit, the
\* underscore and a character that is none of them
NameChars == {"a", "7", "_", "-"}

\* "audit_events"
DefaultTableName == <<"a", "_", "a">>

\* the configured store before Init; db: the *sql.DB handed to the factory
\* ("nil": none, "open", "closedByStore", "closedByApp"); configured: the
\* table_name of the configuration; TableName, SkipMigration: the fields;
\* inited: what Init returned ("no": not called); executed: the statements
\* passed to the database, each with the table name it was built with;
\* closed: Close was called; appUsed: the application has used the handle
\* after the store's Close
NoSqlStore ==
    [db |-> "nil", configured |-> <<>>, TableName |-> <<>>,
     SkipMigration |-> FALSE, inited |-> "no", executed |-> {},
     closed |-> FALSE, appUsed |-> FALSE]

RECURSIVE MatchTail(_)
\* [a-zA-Z0-9_]*$ on the rest of the name
MatchTail(name) ==
    IF name = <<>> THEN TRUE
    ELSE Head(name) \in {"a", "7", "_"} /\ MatchTail(Tail(name))

\* sqlIdentifierRegex = ^[a-zA-Z_][a-zA-Z0-9_]*$
sqlIdentifierRegex(name) ==
    IF name = <<>> THEN FALSE
    ELSE Head(name) \in {"a", "_"} /\ MatchTail(Tail(name))

\* mutant: the regular expression is not anchored at the end
isValidSQLIdentifier_Unanchored(name) ==
    IF name = <<>> THEN FALSE ELSE Head(name) \in {"a", "_"}

isValidSQLIdentifier(name) ==
    IF name = <<>> THEN FALSE ELSE sqlIdentifierRegex(name)

\* s.db.Exec(query) with a query built with table name t
Exec(s, kind, t) ==
    [s EXCEPT !.executed = @ \cup {[stmt |-> kind, table |-> t]}]

\* CREATE TABLE IF NOT EXISTS, then CREATE INDEX IF NOT EXISTS
ensureTableExists(s, fault) ==
    LET s1 == Exec(s, "create table", s.TableName)
    IN IF fault = "create" THEN [s |-> s1, err |-> "create"]
       ELSE LET s2 == Exec(s1, "create index", s.TableName)
            IN IF fault = "index" THEN [s |-> s2, err |-> "index"]
               ELSE [s |-> s2, err |-> "nil"]

\* SQLBackingStore.Init; the result is what Init returned
SqlStoreInit(s, fault) ==
    IF s.db = "nil" THEN [s EXCEPT !.inited = "nodb"]
    ELSE LET s1 == IF s.TableName = <<>>
                   THEN [s EXCEPT !.TableName = DefaultTableName] ELSE s
         IN IF ~isValidSQLIdentifier(s1.TableName)
            THEN [s1 EXCEPT !.inited = "invalid table name"]
            ELSE IF ~s1.SkipMigration
            THEN LET m == ensureTableExists(s1, fault)
                 IN IF m.err # "nil"
                    THEN [m.s EXCEPT !.inited = "failed to create table"]
                    ELSE [m.s EXCEPT !.inited = "nil"]
            ELSE [s1 EXCEPT !.inited = "nil"]

\* mutant: Close closes the database handle
SqlStoreClose_ClosesDB(s) == [s EXCEPT !.closed = TRUE, !.db = "closedByStore"]

\* SQLBackingStore.Close: return nil
SqlStoreClose(s) == [s EXCEPT !.closed = TRUE]

\* ------------------------------------------ the store after construction
\* initializeCachedSize: the cached total size starts as the size of the
\* event files found in the directory
initializeCachedSize(st) ==
    [st EXCEPT !.cachedTotalSize = calculateTotalSize(st, listFiles(st))]

\* FileBackingStore.Init for a store configured with MaxTotalSize opt: an
\* unset limit becomes Some(0), then the cached size is initialised
FileInit(st, opt) ==
    initializeCachedSize(
        [st EXCEPT !.MaxTotalSize = IF ~opt.some THEN Some(0) ELSE opt])

\* a directory in which an earlier run has left one event file whose only
\* line is damaged
LeftoverStore ==
    [EmptyStore EXCEPT !.files = PutFile(@, 1, <<Garbage(0)>>), !.clock = 1]

\* --------------------------------------------- the BackingStore interface
\* the faults a call can meet, per implementation
WriteFaults(v) ==
    CASE v = "memory" -> {"none"}
      [] v = "file"   -> {"none", "stat", "open", "marshal", "io", "sync", "close"}
      [] v = "sql"    -> {"none", "count", "marshal", "insert"}

ReadFaults(v) ==
    CASE v = "memory" -> {"none"}
      [] v = "file"   -> {"none", "list", "open", "scan"}
      [] v = "sql"    -> {"none", "query", "scan", "rows"}

CommitFaults(v) ==
    CASE v = "memory" -> {"none"}
      [] v = "file"   -> {"none", "remove"}
      [] v = "sql"    -> {"none", "delete"}

MetricsFaults(v) ==
    CASE v = "memory" -> {"none"}
      [] v = "file"   -> {"none", "list"}
      [] v = "sql"    -> {"none", "count"}

ClockSteps(v) == IF v = "sql" THEN {0, 1} ELSE {0}

Write(v, st, e, fault, dt) ==
    CASE v = "memory" -> MemWrite(st, e)
      [] v = "file"   -> FileWrite(st, e, fault)
      [] v = "sql"    -> SqlWrite(st, e, fault, dt)

ReadBatch(v, st, fault, dlFail) ==
    CASE v = "memory" -> MemReadBatch(st)
      [] v = "file"   -> FileReadBatch(st, fault, dlFail)
      [] v = "sql"    -> SqlReadBatch(st, fault)

\* invoking the commit function that ReadBatch returned
Commit(st, tok, fault) ==
    CASE tok.kind = "mem"  -> MemCommit(st)
      [] tok.kind = "file" -> FileCommit(st, tok, fault)
      [] tok.kind = "sql"  -> SqlCommit(st, tok, fault)

UpdateMetrics(v, st, fault) ==
    CASE v = "memory" -> MemUpdateMetrics(st)
      [] v = "file"   -> FileUpdateMetrics(st, fault)
      [] v = "sql"    -> SqlUpdateMetrics(st, fault)

\* the store holds its configured maximum: max_events events (memory),
\* max_events rows (sql), max_total_size bytes of event files (file)
HoldsMax(v, st) ==
    CASE v = "memory" -> Len(st.events) = MemMaxEvents
      [] v = "file"   -> FileMaxTotalSize > 0
                         /\ calculateTotalSize(st, listFiles(st)) >= FileMaxTotalSize
      [] v = "sql"    -> countEvents(st) = SqlMaxEvents

\* what Write returns for an event of encoded length size when no fault
\* occurs
WriteResult(v, st, size) == Write(v, st, [id |-> 0, size |-> size], "none", 0).err

\* the IDs of the events a store holds in records that parse
StoredIds(st) ==
    {e.id : e \in Range(st.events)}
    \cup UNION {{e.id : e \in Range(ParsedEvents(st.files[f]))} : f \in DOMAIN st.files}
    \cup {Unmarshal(r.event_data).event.id :
              r \in {x \in Range(st.rows) : Unmarshal(x.event_data).ok}}

\* ===================================================== state of the model
VARIABLES
    variant,          \* which BackingStore implementation is configured
    store,            \* the BackingStore
    chan,             \* EventSink: the inbound channel, a bounded FIFO
    nextEv,           \* ID of the next event a producer or task submits
    stable,           \* TRUE once broker and store have stopped failing
    rc,               \* the loop's broker connection: "nil" or "conn"
    pc,               \* position of the loop: select, drain, send; or "api"
    backingStoreFull, \* Commit's backpressure flag
    anyBatchDrained,  \* drainBackingStore's local
    batch,            \* events of the last ReadBatch
    commitTok,        \* commit function of the last ReadBatch
    sent,             \* number of events of batch published in this pass
    published,        \* IDs the broker has received
    accepted,         \* IDs for which BackingStore.Write returned nil
    last,             \* what the latest step of the loop or task did
    hist,             \* history of the direct store calls (StoreSpec)
    writers,          \* the tasks that call Write concurrently (ConcSpec)
    sqlStore,         \* an SQLBackingStore and the *sql.DB it was given (SqlSpec)
    broker,           \* the broker connections in detail (ConnSpec)
    calls             \* the calls in progress on a file store (MetricsSpec)

vars == <<variant, store, chan, nextEv, stable, rc, pc, backingStoreFull,
          anyBatchDrained, batch, commitTok, sent, published, accepted, last, hist,
          writers, sqlStore, broker, calls>>

\* op: recv, read, send (loop) or write, read, commit, metrics (task),
\* inject (environment);
\* ev: the event handed to Write (0: none), werr: what Write returned,
\* pub: the publish attempt, rerr: what ReadBatch returned,
\* cerr: what the commit function returned ("none": not invoked);
\* batch, sent: in a drain pass the IDs of the batch the step worked on and
\* how many of its events the pass had published after the step
NoStep == [op |-> "none", ev |-> 0, werr |-> "none", pub |-> "none",
           rerr |-> "none", cerr |-> "none", batch |-> <<>>, sent |-> 0]

\* what a caller can tell about an error: none, ErrBackingStoreFull or
\* bufio.ErrTooLong (errors.Is on the wrapped error), or another error
ErrClass(err) == IF err \in {"none", "nil", "full", "toolong"} THEN err ELSE "err"

IdsOf(events) == [i \in DOMAIN events |-> events[i].id]

\* order: "w" only successful writes so far, "r" then only ReadBatch+commit
\* pairs, "x" anything else; out: the batches read while order is not "x";
\* since: IDs Write accepted since the last ReadBatch while its commit
\* function is held; prev: the batch of
\* the ReadBatch before the last one if its commit was never invoked;
\* delGarbage: corrupted lines whose file a commit has deleted;
\* removed: how many events the commit just invoked removed; atMax: the
\* store held its configured maximum when that commit was invoked; ngarb: lines injected;
\* faulted: a call has failed for another reason than a full store, or a
\* record was damaged; byFull: backingStoreFull is set and it was a
\* store-full error that set it; readFiles: the event files still on disk
\* whose contents a ReadBatch has returned; written: the events still in
\* the store for which Write returned success;
\* removedInPass: a commit of a batch has returned nil in the drain pass
\* that is running
\* overlap: a task was between the two statements of SQLBackingStore.Write
\* when another began its Write
NoHist == [order |-> "w", out |-> <<>>, since |-> {}, prev |-> <<>>,
           delGarbage |-> {}, removed |-> 0, atMax |-> FALSE, ngarb |-> 0,
           faulted |-> FALSE, byFull |-> FALSE, readFiles |-> {},
           written |-> {}, overlap |-> FALSE, removedInPass |-> FALSE]

\* inputs a step may draw: anything before the system is stable, then no
\* failure at all
\* a task that writes: quota is the number of events it has to write, pc
\* its position in Write (idle: not in a call), n the number of its calls
\* that have returned, local what the call has
\* read so far (the slice header of s.events, the row count), ok the IDs
\* for which Write returned nil, failed: a call returned an error
Tasks == 1..NumTasks

NoWriters == [t \in Tasks |-> [quota |-> 0, pc |-> "idle", n |-> 0,
                               local |-> <<>>, ok |-> {}, failed |-> FALSE]]

\* the calls in progress on a file store: w a Write between the fsynced
\* append and cachedTotalSize.Add (size: what it will add), u an
\* UpdateMetrics between calculateTotalSize and cachedTotalSize.Store
\* (total: what it will store), c a commit between os.Remove and
\* cachedTotalSize.Add (size: what it will subtract); nu counts the
\* UpdateMetrics calls, overlapped: a call began while another was in progress
NoCalls == [w |-> [pc |-> "idle", size |-> 0],
            u |-> [pc |-> "idle", total |-> 0],
            c |-> [pc |-> "idle", size |-> 0],
            nu |-> 0, overlapped |-> FALSE]

FaultsNow(S) == IF stable THEN {"none"} ELSE S
OkNow == IF stable THEN {TRUE} ELSE BOOLEAN
FailNow == IF stable THEN {FALSE} ELSE BOOLEAN

\* the sizes an event can have: the count-based stores do not look at it,
\* for the file store a smallest and a largest event
SizesFor(v) == IF v = "file" THEN {1, MaxEventSize} ELSE {1}

\* ------------------------------------------------------ broker connection
\* the connections in detail: rc is the handle the loop holds (0: nil,
\* k: the k-th connection dialed), open the connections whose socket is
\* open, old: rc was established 5 minutes ago or earlier, dials and sends
\* count the successful dials and the publish attempts; step, disc and pub
\* tell what the latest sendEvent did
NoBroker == [rc |-> 0, open |-> {}, old |-> FALSE, dials |-> 0, sends |-> 0,
             step |-> "none", disc |-> FALSE, pub |-> "none"]

\* rc.IsNilOrClosed()
IsNilOrClosed(b) == b.rc = 0 \/ b.rc \notin b.open

\* rc.Disconnect(): closes the connection
Disconnect(b) == [b EXCEPT !.open = @ \ {b.rc}, !.disc = TRUE]

\* newRabbitConnection: a new open connection, or nil and an error
newRabbitConnection(b, connOk) ==
    IF connOk
    THEN [b EXCEPT !.rc = b.dials + 1, !.open = @ \cup {b.dials + 1},
                   !.old = FALSE, !.dials = @ + 1, !.step = "connected"]
    ELSE [b EXCEPT !.rc = 0, !.old = FALSE, !.step = "failed"]

\* mutant: an old connection is replaced without Disconnect
refreshConnection_NoDisconnect(b, connOk) ==
    IF ~IsNilOrClosed(b) /\ ~b.old
    THEN [b EXCEPT !.step = "kept", !.disc = FALSE]
    ELSE newRabbitConnection([b EXCEPT !.disc = FALSE], connOk)

\* refreshConnectionIfClosedOrOld with its effects on the connections
refreshConnection(b, connOk) ==
    LET b0 == [b EXCEPT !.disc = FALSE]
    IN IF ~IsNilOrClosed(b0)
       THEN IF ~b0.old
            THEN [b0 EXCEPT !.step = "kept"]
            ELSE newRabbitConnection(Disconnect(b0), connOk)
       ELSE newRabbitConnection(b0, connOk)

\* what IsNilOrClosed and time.Since(rc.LastConnectedAt) find
ConnStates == {"fresh", "old", "closed"}
ConnStatesNow == IF stable THEN {"fresh", "old"} ELSE ConnStates

\* refreshConnectionIfClosedOrOld: keep an open connection younger than
\* 5 minutes, otherwise (after Disconnect of an old one) reconnect;
\* connOk is the outcome of newRabbitConnection
refreshConnectionIfClosedOrOld(conn, connState, connOk) ==
    IF conn # "nil" /\ connState = "fresh" THEN conn
    ELSE IF connOk THEN "conn" ELSE "nil"

\* rc.PublishEvent(ctx, e) = nil: a nil connection returns an error, an
\* open one the broker's answer pubOk
PublishEvent(conn, pubOk) == conn # "nil" /\ pubOk

\* mutant: the broker is never reached
sendEvent_Down(conn, connState, connOk, pubOk) ==
    [rc |-> refreshConnectionIfClosedOrOld(conn, connState, connOk), ok |-> FALSE]

\* the sendEvent closure of Commit
sendEvent(conn, connState, connOk, pubOk) ==
    LET conn1 == refreshConnectionIfClosedOrOld(conn, connState, connOk)
    IN [rc |-> conn1, ok |-> PublishEvent(conn1, pubOk)]

\* the outcomes sendEvent can have now
SendOutcomes ==
    {sendEvent(rc, cs, connOk, pubOk) :
        cs \in ConnStatesNow, connOk \in OkNow, pubOk \in OkNow}

\* the outcomes BackingStore.Write(e) can have now
WriteOutcomes(e) ==
    {Write(variant, store, e, fault, dt) :
        fault \in FaultsNow(WriteFaults(variant)), dt \in ClockSteps(variant)}

\* ------------------------------------------------------------- producers
\* a producer puts the next event on EventSink; blocks while it is full
Submit ==
    /\ pc # "api"
    /\ nextEv <= NumEvents
    /\ Len(chan) < ChanCap
    /\ \E s \in SizesFor(variant) :
           chan' = Append(chan, [id |-> nextEv, size |-> s])
    /\ nextEv' = nextEv + 1
    /\ UNCHANGED <<calls, broker, sqlStore, writers, variant, store, stable, rc, pc, backingStoreFull,
                   anyBatchDrained, batch, commitTok, sent, published,
                   accepted, last, hist>>

\* ----------------------------------------------------------- environment
Stabilize ==
    /\ pc # "api"
    /\ ~stable
    /\ stable' = TRUE
    /\ UNCHANGED <<calls, broker, sqlStore, writers, variant, store, chan, nextEv, rc, pc, backingStoreFull,
                   anyBatchDrained, batch, commitTok, sent, published,
                   accepted, last, hist>>

\* ------------------------------------------------- auditTrail.Commit loop
\* mutant: the event is written to the store whether or not it was published
RecvMain_WriteAlways ==
    /\ pc = "select"
    /\ ~backingStoreFull
    /\ chan # <<>>
    /\ \E s \in SendOutcomes, w \in WriteOutcomes(Head(chan)) :
         LET e == Head(chan)
         IN /\ rc' = s.rc
            /\ IF s.ok
               THEN /\ published' = published \cup {e.id}
                    /\ store' = w.st
                    /\ UNCHANGED <<backingStoreFull, accepted, hist>>
                    /\ last' = [NoStep EXCEPT !.op = "recv", !.pub = "ok"]
               ELSE /\ store' = w.st
                    /\ backingStoreFull' = (w.err # "nil")
                    /\ hist' = [hist EXCEPT !.byFull = (w.err = "full")]
                    /\ accepted' = IF w.err = "nil" THEN accepted \cup {e.id}
                                   ELSE accepted
                    /\ UNCHANGED published
                    /\ last' = [NoStep EXCEPT !.op = "recv", !.ev = e.id,
                                              !.pub = "fail",
                                              !.werr = ErrClass(w.err)]
    /\ chan' = Tail(chan)
    /\ UNCHANGED <<calls, broker, sqlStore, writers, variant, nextEv, stable, pc, anyBatchDrained, batch,
                   commitTok, sent>>

\* case e := <-channelToRead
RecvMain ==
    /\ pc = "select"
    /\ ~backingStoreFull
    /\ chan # <<>>
    /\ \E s \in SendOutcomes, w \in WriteOutcomes(Head(chan)) :
         LET e == Head(chan)
         IN /\ rc' = s.rc
            /\ IF s.ok
               THEN /\ published' = published \cup {e.id}
                    /\ UNCHANGED <<store, backingStoreFull, accepted, hist>>
                    /\ last' = [NoStep EXCEPT !.op = "recv", !.pub = "ok"]
               ELSE /\ store' = w.st
                    /\ backingStoreFull' = (w.err # "nil")
                    /\ hist' = [hist EXCEPT !.byFull = (w.err = "full")]
                    /\ accepted' = IF w.err = "nil" THEN accepted \cup {e.id}
                                   ELSE accepted
                    /\ UNCHANGED published
                    /\ last' = [NoStep EXCEPT !.op = "recv", !.ev = e.id,
                                              !.pub = "fail",
                                              !.werr = ErrClass(w.err)]
    /\ chan' = Tail(chan)
    /\ UNCHANGED <<calls, broker, sqlStore, writers, variant, nextEv, stable, pc, anyBatchDrained, batch,
                   commitTok, sent>>

\* mutant: an UpdateMetrics error ends the loop
MetricsTick_Fatal ==
    /\ pc = "select"
    /\ \E fault \in FaultsNow(MetricsFaults(variant)) :
         LET u == UpdateMetrics(variant, store, fault)
         IN /\ store' = u.st
            /\ pc' = IF u.err = "nil" THEN pc ELSE "returned"
    /\ last' = NoStep
    /\ UNCHANGED <<calls, broker, sqlStore, writers, variant, chan, nextEv, stable, rc, backingStoreFull,
                   anyBatchDrained, batch, commitTok, sent, published, accepted,
                   hist>>

\* case <-metricsTicker.C
MetricsTick ==
    /\ pc = "select"
    /\ \E fault \in FaultsNow(MetricsFaults(variant)) :
           store' = UpdateMetrics(variant, store, fault).st
    /\ last' = NoStep
    /\ UNCHANGED <<calls, broker, sqlStore, writers, variant, chan, nextEv, stable, rc, pc, backingStoreFull,
                   anyBatchDrained, batch, commitTok, sent, published, accepted,
                   hist>>

\* case <-drainTicker.C: enter drainBackingStore
DrainTick ==
    /\ pc = "select"
    /\ pc' = "drain"
    /\ anyBatchDrained' = FALSE
    /\ last' = NoStep
    /\ UNCHANGED <<calls, broker, sqlStore, writers, variant, store, chan, nextEv, stable, rc, backingStoreFull,
                   batch, commitTok, sent, published, accepted, hist>>

\* mutant: a drain pass never looks at EventSink
PollSink_Skip ==
    {[st |-> store, chan |-> chan, ev |-> 0, err |-> "none"]}

\* mutant: the poll takes the event and drops it without calling Write
PollSink_NoWrite ==
    IF chan = <<>>
    THEN {[st |-> store, chan |-> chan, ev |-> 0, err |-> "none"]}
    ELSE {[st |-> store, chan |-> Tail(chan), ev |-> 0, err |-> "none"]}

\* the non-blocking "select { case e := <-t.EventSink: Write(e); default: }"
\* of drainBackingStore: the outcomes it can have now
PollSink ==
    IF chan = <<>>
    THEN {[st |-> store, chan |-> chan, ev |-> 0, err |-> "none"]}
    ELSE {[st |-> w.st, chan |-> Tail(chan), ev |-> Head(chan).id, err |-> w.err] :
              w \in WriteOutcomes(Head(chan))}

\* mutant: the pass goes on with the next iteration instead of returning
DrainReturn_Continue(drained) ==
    /\ pc' = "drain"
    /\ backingStoreFull' = IF drained /\ backingStoreFull THEN FALSE
                           ELSE backingStoreFull
    /\ hist' = [hist EXCEPT !.byFull = IF drained THEN FALSE ELSE @,
                             !.removedInPass = FALSE]
    /\ anyBatchDrained' = FALSE

\* mutant: Commit ignores what drainBackingStore returned
DrainReturn_KeepFlag(drained) ==
    /\ pc' = "select"
    /\ UNCHANGED backingStoreFull
    /\ hist' = [hist EXCEPT !.removedInPass = FALSE]
    /\ anyBatchDrained' = FALSE

\* drainBackingStore returns drained (its locals are gone); Commit then
\* updates the flag
DrainReturn(drained) ==
    /\ pc' = "select"
    /\ backingStoreFull' = IF drained /\ backingStoreFull THEN FALSE
                           ELSE backingStoreFull
    /\ hist' = [hist EXCEPT !.byFull = IF drained THEN FALSE ELSE @,
                             !.removedInPass = FALSE]
    /\ anyBatchDrained' = FALSE

\* one iteration of the outer loop of drainBackingStore up to the batch
DrainRead ==
    /\ pc = "drain"
    /\ \E p \in PollSink :
       \E r \in {ReadBatch(variant, p.st, rfault, dlFail) :
                    rfault \in FaultsNow(ReadFaults(variant)), dlFail \in FailNow} :
         LET step == [NoStep EXCEPT !.op = "read", !.ev = p.ev,
                                    !.werr = ErrClass(p.err),
                                    !.rerr = ErrClass(r.err)]
         IN
         /\ chan' = p.chan
         /\ accepted' = IF p.err = "nil" THEN accepted \cup {p.ev} ELSE accepted
         /\ IF r.err # "nil"
            THEN /\ store' = r.st
                 /\ DrainReturn(anyBatchDrained)
                 /\ UNCHANGED <<batch, commitTok, sent>>
                 /\ last' = step
            ELSE IF Len(r.events) = 0
            THEN /\ IF r.commit.kind = "none"
                    THEN /\ store' = r.st
                         /\ last' = step
                    ELSE \E c \in {Commit(r.st, r.commit, cfault) :
                                      cfault \in FaultsNow(CommitFaults(variant))} :
                         /\ store' = c.st
                         /\ last' = [step EXCEPT !.cerr = ErrClass(c.err),
                                                 !.batch = IdsOf(r.events)]
                 /\ DrainReturn(anyBatchDrained)
                 /\ UNCHANGED <<batch, commitTok, sent>>
            ELSE /\ store' = r.st
                 /\ pc' = "send"
                 /\ batch' = r.events
                 /\ commitTok' = r.commit
                 /\ sent' = 0
                 /\ UNCHANGED <<backingStoreFull, anyBatchDrained, hist>>
                 /\ last' = step
    /\ UNCHANGED <<calls, broker, sqlStore, writers, variant, nextEv, stable, rc, published>>

\* one iteration of "for _, e := range events", and after the last event
\* the commit of the batch
DrainSend ==
    /\ pc = "send"
    /\ \E p \in PollSink, s \in SendOutcomes :
         LET e == batch[sent + 1]
             step == [NoStep EXCEPT !.op = "send", !.ev = p.ev,
                                    !.werr = ErrClass(p.err),
                                    !.batch = IdsOf(batch)]
         IN /\ chan' = p.chan
            /\ accepted' = IF p.err = "nil" THEN accepted \cup {p.ev} ELSE accepted
            /\ rc' = s.rc
            /\ IF ~s.ok
               THEN /\ store' = p.st
                    /\ DrainReturn(anyBatchDrained)
                    /\ batch' = <<>>
                    /\ commitTok' = NoCommit
                    /\ sent' = 0
                    /\ UNCHANGED published
                    /\ last' = [step EXCEPT !.pub = "fail", !.sent = sent]
               ELSE /\ published' = published \cup {e.id}
                    /\ IF sent + 1 < Len(batch)
                       THEN /\ store' = p.st
                            /\ sent' = sent + 1
                            /\ UNCHANGED <<pc, backingStoreFull, anyBatchDrained,
                                           batch, commitTok, hist>>
                            /\ last' = [step EXCEPT !.pub = "ok", !.sent = sent + 1]
                       ELSE \E c \in {Commit(p.st, commitTok, cfault) :
                                         cfault \in FaultsNow(CommitFaults(variant))} :
                            /\ store' = c.st
                            /\ anyBatchDrained' = TRUE
                            /\ pc' = "drain"
                            /\ batch' = <<>>
                            /\ commitTok' = NoCommit
                            /\ sent' = 0
                            /\ UNCHANGED backingStoreFull
                            /\ hist' = [hist EXCEPT !.removedInPass =
                                                        @ \/ c.err = "nil"]
                            /\ last' = [step EXCEPT !.pub = "ok", !.sent = sent + 1,
                                                    !.cerr = ErrClass(c.err)]
    /\ UNCHANGED <<calls, broker, sqlStore, writers, variant, nextEv, stable>>

Init ==
    /\ variant \in Variants
    /\ store = EmptyStore
    /\ chan = <<>>
    /\ nextEv = 1
    /\ stable = FALSE
    /\ rc \in {"conn", "nil"}
    /\ pc = "select"
    /\ backingStoreFull = FALSE
    /\ anyBatchDrained = FALSE
    /\ batch = <<>>
    /\ commitTok = NoCommit
    /\ sent = 0
    /\ published = {}
    /\ accepted = {}
    /\ last = NoStep
    /\ hist = NoHist
    /\ writers = NoWriters
    /\ sqlStore = NoSqlStore
    /\ broker = NoBroker
    /\ calls = NoCalls

Next ==
    \/ Submit
    \/ Stabilize
    \/ RecvMain
    \/ MetricsTick
    \/ DrainTick
    \/ DrainRead
    \/ DrainSend

Spec == Init /\ [][Next]_vars

\* the loop under fair scheduling: the tickers keep firing, a started drain
\* pass keeps running, and the failures stop at some point
FairSpec ==
    /\ Spec
    /\ WF_vars(Stabilize)
    /\ WF_vars(RecvMain)
    /\ WF_vars(DrainTick)
    /\ WF_vars(DrainRead)
    /\ WF_vars(DrainSend)

\* the loop keeps running, and nothing is assumed about the results of
\* publish and of the store operations
PassSpec ==
    /\ Spec
    /\ WF_vars(DrainRead)
    /\ WF_vars(DrainSend)

\* the loop started with a file store on a directory that holds a leftover
\* file
LeftoverInit ==
    /\ variant = "file"
    /\ store = initializeCachedSize(LeftoverStore)
    /\ chan = <<>>
    /\ nextEv = 1
    /\ stable = FALSE
    /\ rc \in {"conn", "nil"}
    /\ pc = "select"
    /\ backingStoreFull = FALSE
    /\ anyBatchDrained = FALSE
    /\ batch = <<>>
    /\ commitTok = NoCommit
    /\ sent = 0
    /\ published = {}
    /\ accepted = {}
    /\ last = NoStep
    /\ hist = [NoHist EXCEPT !.faulted = TRUE]
    /\ writers = NoWriters
    /\ sqlStore = NoSqlStore
    /\ broker = NoBroker
    /\ calls = NoCalls

LeftoverSpec == LeftoverInit /\ [][Next]_vars

\* how many events the tasks write: for the stores that count events one
\* more than the store holds
WritesFor(v) ==
    CASE v = "memory" -> MemMaxEvents + 1
      [] v = "sql"    -> SqlMaxEvents + 1
      [] OTHER        -> NumWrites

\* ================================== tasks calling the BackingStore methods
\* store.Write(event) by a task; the events carry increasing IDs
ApiWrite ==
    /\ pc = "api"
    /\ nextEv <= WritesFor(variant)
    /\ \E size \in SizesFor(variant) :
       \E w \in WriteOutcomes([id |-> nextEv, size |-> size]) :
         /\ store' = w.st
         /\ last' = [NoStep EXCEPT !.op = "write", !.ev = nextEv,
                                   !.werr = ErrClass(w.err)]
         /\ hist' = [hist EXCEPT
                        !.since = IF commitTok.kind = "none" THEN {}
                                  ELSE IF w.err = "nil" THEN @ \cup {nextEv} ELSE @,
                        !.order = IF @ = "w" /\ w.err = "nil" THEN "w" ELSE "x",
                        !.out = IF hist.order = "w" /\ w.err = "nil" THEN @ ELSE <<>>,
                        !.removed = 0,
                        !.atMax = FALSE,
                        !.written = IF w.err = "nil"
                                    THEN @ \cup {[id |-> nextEv, size |-> size]}
                                    ELSE @,
                        !.faulted = @ \/ w.err \notin {"nil", "full"}]
    /\ nextEv' = nextEv + 1
    /\ UNCHANGED <<calls, broker, sqlStore, writers, variant, chan, stable, rc, pc, backingStoreFull,
                   anyBatchDrained, batch, commitTok, sent, published, accepted>>

\* events, commit, err := store.ReadBatch(); on an error the task keeps
\* what it held
ApiReadBatch ==
    /\ pc = "api"
    /\ \E r \in {ReadBatch(variant, store, rfault, dlFail) :
                    rfault \in ReadFaults(variant), dlFail \in BOOLEAN} :
         /\ store' = r.st
         /\ last' = [NoStep EXCEPT !.op = "read", !.rerr = ErrClass(r.err)]
         /\ IF r.err # "nil"
            THEN /\ hist' = [hist EXCEPT !.order = "x", !.out = <<>>,
                                          !.removed = 0, !.atMax = FALSE,
                                          !.faulted = TRUE]
                 /\ UNCHANGED <<batch, commitTok>>
            ELSE /\ batch' = r.events
                 /\ commitTok' = r.commit
                 /\ hist' = [hist EXCEPT
                       !.since = {},
                       !.prev = IF commitTok.kind # "none" THEN batch ELSE <<>>,
                       !.order = IF @ # "x" /\ commitTok.kind = "none"
                                 THEN "r" ELSE "x",
                       !.out = IF hist.order # "x" /\ commitTok.kind = "none"
                               THEN @ \o IdsOf(r.events)
                               ELSE <<>>,
                       !.removed = 0,
                       !.atMax = FALSE,
                       !.readFiles = IF r.commit.kind = "file"
                                     THEN @ \cup {r.commit.path} ELSE @]
    /\ UNCHANGED <<calls, broker, sqlStore, writers, variant, chan, nextEv, stable, rc, pc, backingStoreFull,
                   anyBatchDrained, sent, published, accepted>>

\* err := commit() for the commit function the task holds
ApiCommit ==
    /\ pc = "api"
    /\ commitTok.kind # "none"
    /\ \E c \in {Commit(store, commitTok, cfault) : cfault \in CommitFaults(variant)} :
         /\ store' = c.st
         /\ last' = [NoStep EXCEPT !.op = "commit", !.cerr = ErrClass(c.err)]
         /\ hist' = [hist EXCEPT
               !.order = IF c.err = "nil" THEN @ ELSE "x",
               !.out = IF c.err = "nil" THEN @ ELSE <<>>,
               !.faulted = @ \/ c.err # "nil",
               !.prev = <<>>,
               !.removed = Cardinality(StoredIds(store) \ StoredIds(c.st)),
               !.atMax = HoldsMax(variant, store),
               !.readFiles = @ \cap DOMAIN c.st.files,
               !.written = {e \in @ : e.id \in StoredIds(c.st)},
               !.delGarbage =
                   IF c.err = "nil" /\ commitTok.kind = "file"
                   THEN @ \cup {l.id : l \in CorruptedLines(store.files[commitTok.path])}
                   ELSE @]
    /\ commitTok' = NoCommit
    /\ UNCHANGED <<calls, broker, sqlStore, writers, variant, chan, nextEv, stable, rc, pc, backingStoreFull,
                   anyBatchDrained, batch, sent, published, accepted>>

\* store.UpdateMetrics() by a task
ApiUpdateMetrics ==
    /\ pc = "api"
    /\ \E fault \in MetricsFaults(variant) :
           store' = UpdateMetrics(variant, store, fault).st
    /\ last' = [NoStep EXCEPT !.op = "metrics"]
    /\ UNCHANGED <<calls, broker, sqlStore, writers, variant, chan, nextEv, stable, rc, pc, backingStoreFull,
                   anyBatchDrained, batch, commitTok, sent, published,
                   accepted, hist>>

\* a record that does not parse turns up in the store (a damaged line in an
\* event file, an event file whose only line is damaged, a row whose
\* payload is no event) while no batch is in flight
InjectGarbage ==
    /\ pc = "api"
    /\ hist.ngarb < MaxGarbage
    /\ commitTok.kind = "none"
    /\ \/ /\ variant = "file"
          /\ \E f \in DOMAIN store.files :
                store' = [store EXCEPT
                    !.files = PutFile(@, f, Append(store.files[f], Garbage(hist.ngarb + 1)))]
       \/ /\ variant = "file"
          /\ DOMAIN store.files = {}
          /\ store' = [store EXCEPT
                 !.files = PutFile(@, newFileName(store), <<Garbage(hist.ngarb + 1)>>),
                 !.clock = @ + 1]
       \/ /\ variant = "sql"
          /\ store' = [store EXCEPT
                 !.rows = Append(@, [id |-> store.nextId,
                                     event_data |-> Garbage(hist.ngarb + 1),
                                     created_at |-> store.clock]),
                 !.nextId = @ + 1]
    /\ hist' = [hist EXCEPT !.ngarb = @ + 1, !.faulted = TRUE,
                            !.removed = 0, !.atMax = FALSE]
    /\ last' = [NoStep EXCEPT !.op = "inject"]
    /\ UNCHANGED <<calls, broker, sqlStore, writers, variant, chan, nextEv, stable, rc, pc, backingStoreFull,
                   anyBatchDrained, batch, commitTok, sent, published,
                   accepted>>

StoreInit ==
    /\ variant \in Variants
    /\ store = EmptyStore
    /\ chan = <<>>
    /\ nextEv = 1
    /\ stable = FALSE
    /\ rc = "nil"
    /\ pc = "api"
    /\ backingStoreFull = FALSE
    /\ anyBatchDrained = FALSE
    /\ batch = <<>>
    /\ commitTok = NoCommit
    /\ sent = 0
    /\ published = {}
    /\ accepted = {}
    /\ last = NoStep
    /\ hist = NoHist
    /\ writers = NoWriters
    /\ sqlStore = NoSqlStore
    /\ broker = NoBroker
    /\ calls = NoCalls

\* the tasks with a file store whose max_total_size is unset or 0
UnlimitedInit ==
    /\ variant = "file"
    /\ store \in {FileInit(EmptyStore, opt) : opt \in {None, Some(0)}}
    /\ chan = <<>>
    /\ nextEv = 1
    /\ stable = FALSE
    /\ rc = "nil"
    /\ pc = "api"
    /\ backingStoreFull = FALSE
    /\ anyBatchDrained = FALSE
    /\ batch = <<>>
    /\ commitTok = NoCommit
    /\ sent = 0
    /\ published = {}
    /\ accepted = {}
    /\ last = NoStep
    /\ hist = NoHist
    /\ writers = NoWriters
    /\ sqlStore = NoSqlStore
    /\ broker = NoBroker
    /\ calls = NoCalls

StoreNext ==
    \/ ApiWrite
    \/ ApiReadBatch
    \/ ApiCommit
    \/ ApiUpdateMetrics
    \/ InjectGarbage

StoreSpec == StoreInit /\ [][StoreNext]_vars

\* its directory is damaged by nobody
UnlimitedNext ==
    \/ ApiWrite
    \/ ApiReadBatch
    \/ ApiCommit
    \/ ApiUpdateMetrics

UnlimitedSpec == UnlimitedInit /\ [][UnlimitedNext]_vars

\* ======================================== tasks calling Write concurrently
\* NumTasks tasks each write up to EventsPerTask events of their own into
\* one store; when all have returned, one task drains the store with ReadBatch
\* and commit. The in-memory and the file store take s.mu for the whole of
\* Write; the SQL store issues two statements without a transaction.
EventOf(t, j) == [id |-> (t - 1) * EventsPerTask + j, size |-> 1]

InWrite == {"locked", "counted"}

\* mutant: s.mu.Lock() does not wait for the holder
Lock_NoMutex(w) == TRUE

\* s.mu.Lock() returns once no other task holds the mutex
Lock(w) == \A u \in Tasks : w[u].pc # "locked"

Returned(w, t, id, err) ==
    [w EXCEPT ![t] = [quota |-> w[t].quota, pc |-> "idle", n |-> w[t].n + 1,
                      local |-> <<>>,
                      ok |-> IF err = "nil" THEN w[t].ok \cup {id} ELSE w[t].ok,
                      failed |-> w[t].failed \/ err # "nil"]]

AllReturned ==
    \A t \in Tasks : writers[t].pc = "idle" /\ writers[t].n = writers[t].quota

RECURSIVE SumQuota(_, _)
SumQuota(w, T) ==
    IF T = {} THEN 0
    ELSE LET t == CHOOSE x \in T : TRUE IN w[t].quota + SumQuota(w, T \ {t})

\* the number of events the tasks write together
TotalEvents == SumQuota(writers, Tasks)

\* InMemoryBackingStore.Write, FileBackingStore.Write up to s.mu.Lock();
\* the in-memory store's Write goes on to read s.events
TaskLock(t) ==
    /\ pc = "conc"
    /\ variant \in {"memory", "file"}
    /\ writers[t].pc = "idle"
    /\ writers[t].n < writers[t].quota
    /\ Lock(writers)
    /\ writers' = [writers EXCEPT ![t].pc = "locked",
                                  ![t].local = IF variant = "memory"
                                               THEN store.events ELSE <<>>]
    /\ UNCHANGED <<calls, broker, sqlStore, variant, store, chan, nextEv, stable, rc, pc, backingStoreFull,
                   anyBatchDrained, batch, commitTok, sent, published,
                   accepted, last, hist>>

\* InMemoryBackingStore.Write from the length check to the deferred Unlock:
\* s.events = append(s.events, event) on the slice the call has read
TaskMemWrite(t) ==
    /\ pc = "conc"
    /\ variant = "memory"
    /\ writers[t].pc = "locked"
    /\ LET e == EventOf(t, writers[t].n + 1)
           w == MemWrite([store EXCEPT !.events = writers[t].local], e)
       IN /\ store' = IF w.err = "nil" THEN w.st ELSE store
          /\ writers' = Returned(writers, t, e.id, w.err)
    /\ UNCHANGED <<calls, broker, sqlStore, variant, chan, nextEv, stable, rc, pc, backingStoreFull,
                   anyBatchDrained, batch, commitTok, sent, published,
                   accepted, last, hist>>

\* FileBackingStore.Write from getCurrentOrRotatedFile to the deferred Unlock
TaskFileWrite(t) ==
    /\ pc = "conc"
    /\ variant = "file"
    /\ writers[t].pc = "locked"
    /\ LET e == EventOf(t, writers[t].n + 1)
           w == FileWrite(store, e, "none")
       IN /\ store' = w.st
          /\ writers' = Returned(writers, t, e.id, w.err)
    /\ UNCHANGED <<calls, broker, sqlStore, variant, chan, nextEv, stable, rc, pc, backingStoreFull,
                   anyBatchDrained, batch, commitTok, sent, published,
                   accepted, last, hist>>

\* SQLBackingStore.Write: count, err := s.countEvents()
TaskCount(t) ==
    /\ pc = "conc"
    /\ variant = "sql"
    /\ writers[t].pc = "idle"
    /\ writers[t].n < writers[t].quota
    /\ writers' = [writers EXCEPT ![t].pc = "counted",
                                  ![t].local = <<countEvents(store)>>]
    /\ hist' = [hist EXCEPT !.overlap = @ \/ \E u \in Tasks \ {t} :
                                                 writers[u].pc \in InWrite]
    /\ UNCHANGED <<calls, broker, sqlStore, variant, store, chan, nextEv, stable, rc, pc, backingStoreFull,
                   anyBatchDrained, batch, commitTok, sent, published,
                   accepted, last>>

\* SQLBackingStore.Write from "if count >= maxEvents" to the INSERT
TaskInsert(t) ==
    /\ pc = "conc"
    /\ variant = "sql"
    /\ writers[t].pc = "counted"
    /\ LET e == EventOf(t, writers[t].n + 1)
           full == SqlAtLimit(writers[t].local[1])
       IN \E dt \in ClockSteps(variant) :
            /\ store' = IF full THEN store ELSE SqlInsert(store, e, dt)
            /\ writers' = Returned(writers, t, e.id, IF full THEN "full" ELSE "nil")
    /\ UNCHANGED <<calls, broker, sqlStore, variant, chan, nextEv, stable, rc, pc, backingStoreFull,
                   anyBatchDrained, batch, commitTok, sent, published,
                   accepted, last, hist>>

\* the drain by one task once every writer has returned: ReadBatch
ConcReadBatch ==
    /\ pc = "conc"
    /\ AllReturned
    /\ commitTok = NoCommit
    /\ LET r == ReadBatch(variant, store, "none", FALSE)
       IN /\ store' = r.st
          /\ batch' = r.events
          /\ commitTok' = r.commit
          /\ last' = [NoStep EXCEPT !.op = "read", !.rerr = ErrClass(r.err),
                                    !.batch = IdsOf(r.events)]
          /\ hist' = [hist EXCEPT !.out = @ \o IdsOf(r.events)]
    /\ UNCHANGED <<calls, broker, sqlStore, variant, chan, nextEv, stable, rc, pc, backingStoreFull,
                   anyBatchDrained, sent, published, accepted, writers>>

\* the drain: the commit function of the batch just read
ConcCommit ==
    /\ pc = "conc"
    /\ commitTok # NoCommit
    /\ LET c == Commit(store, commitTok, "none")
       IN /\ store' = c.st
          /\ last' = [NoStep EXCEPT !.op = "commit", !.cerr = ErrClass(c.err)]
    /\ batch' = <<>>
    /\ commitTok' = NoCommit
    /\ UNCHANGED <<calls, broker, sqlStore, variant, chan, nextEv, stable, rc, pc, backingStoreFull,
                   anyBatchDrained, sent, published, accepted, hist, writers>>

ConcInit ==
    /\ variant \in Variants
    /\ store = EmptyStore
    /\ chan = <<>>
    /\ nextEv = 1
    /\ stable = FALSE
    /\ rc = "nil"
    /\ pc = "conc"
    /\ backingStoreFull = FALSE
    /\ anyBatchDrained = FALSE
    /\ batch = <<>>
    /\ commitTok = NoCommit
    /\ sent = 0
    /\ published = {}
    /\ accepted = {}
    /\ last = NoStep
    /\ hist = NoHist
    /\ writers \in {[t \in Tasks |-> [NoWriters[t] EXCEPT !.quota = q[t]]] :
                      q \in [Tasks -> 0..EventsPerTask]}
    /\ sqlStore = NoSqlStore
    /\ broker = NoBroker
    /\ calls = NoCalls

ConcNext ==
    \/ \E t \in Tasks : TaskLock(t)
    \/ \E t \in Tasks : TaskMemWrite(t)
    \/ \E t \in Tasks : TaskFileWrite(t)
    \/ \E t \in Tasks : TaskCount(t)
    \/ \E t \in Tasks : TaskInsert(t)
    \/ ConcReadBatch
    \/ ConcCommit

ConcSpec == ConcInit /\ [][ConcNext]_vars

\* the number of events of encoded length 1 a store accepts before it is
\* full: max_events, or for the file store the number of lines after which
\* the cached total size has reached max_total_size
CapacityInEvents(v) ==
    LET lineSize == LineSize(Marshal([id |-> 1, size |-> 1]))
    IN CASE v = "memory" -> MemMaxEvents
         [] v = "sql"    -> SqlMaxEvents
         [] OTHER        -> (FileMaxTotalSize + lineSize - 1) \div lineSize

\* ============================ an SQLBackingStore from factory to Close
\* the factory unmarshals the configuration, sets store.db and calls Init
Names == UNION {[1..n -> NameChars] : n \in 0..MaxNameLen}

SqlFactory ==
    /\ pc = "sql"
    /\ sqlStore.inited = "no"
    /\ \E fault \in {"none", "create", "index"} :
          sqlStore' = SqlStoreInit(sqlStore, fault)
    /\ UNCHANGED <<calls, broker, variant, store, chan, nextEv, stable, rc, pc,
                   backingStoreFull,
                   anyBatchDrained, batch, commitTok, sent, published,
                   accepted, last, hist, writers>>

\* a statement of Write, ReadBatch, the commit function or UpdateMetrics on
\* the store the factory returned
SqlStatement ==
    /\ pc = "sql"
    /\ sqlStore.inited = "nil"
    /\ sqlStore.db = "open"
    /\ \E kind \in {"select count", "insert", "select", "delete"} :
          sqlStore' = Exec(sqlStore, kind, sqlStore.TableName)
    /\ UNCHANGED <<calls, broker, variant, store, chan, nextEv, stable, rc, pc,
                   backingStoreFull,
                   anyBatchDrained, batch, commitTok, sent, published,
                   accepted, last, hist, writers>>

\* store.Close()
SqlClose ==
    /\ pc = "sql"
    /\ sqlStore.inited = "nil"
    /\ ~sqlStore.closed
    /\ sqlStore' = SqlStoreClose(sqlStore)
    /\ UNCHANGED <<calls, broker, variant, store, chan, nextEv, stable, rc, pc,
                   backingStoreFull,
                   anyBatchDrained, batch, commitTok, sent, published,
                   accepted, last, hist, writers>>

\* the application runs a statement of its own on the handle after the
\* store's Close
AppQuery ==
    /\ pc = "sql"
    /\ sqlStore.closed
    /\ sqlStore.db = "open"
    /\ ~sqlStore.appUsed
    /\ sqlStore' = [sqlStore EXCEPT !.appUsed = TRUE]
    /\ UNCHANGED <<calls, broker, variant, store, chan, nextEv, stable, rc, pc,
                   backingStoreFull,
                   anyBatchDrained, batch, commitTok, sent, published,
                   accepted, last, hist, writers>>

\* the application closes its handle (defer db.Close()), after the store
AppCloseDB ==
    /\ pc = "sql"
    /\ sqlStore.closed
    /\ sqlStore.db = "open"
    /\ sqlStore' = [sqlStore EXCEPT !.db = "closedByApp"]
    /\ UNCHANGED <<calls, broker, variant, store, chan, nextEv, stable, rc, pc,
                   backingStoreFull,
                   anyBatchDrained, batch, commitTok, sent, published,
                   accepted, last, hist, writers>>

SqlSpecInit ==
    /\ variant = "sql"
    /\ store = EmptyStore
    /\ chan = <<>>
    /\ nextEv = 1
    /\ stable = FALSE
    /\ rc = "nil"
    /\ pc = "sql"
    /\ backingStoreFull = FALSE
    /\ anyBatchDrained = FALSE
    /\ batch = <<>>
    /\ commitTok = NoCommit
    /\ sent = 0
    /\ published = {}
    /\ accepted = {}
    /\ last = NoStep
    /\ hist = NoHist
    /\ writers = NoWriters
    /\ \E name \in Names, skip \in BOOLEAN, db \in {"nil", "open"} :
          sqlStore = [NoSqlStore EXCEPT !.db = db, !.configured = name,
                                        !.TableName = name, !.SkipMigration = skip]
    /\ broker = NoBroker
    /\ calls = NoCalls

SqlSpecNext ==
    \/ SqlFactory
    \/ SqlStatement
    \/ SqlClose
    \/ AppQuery
    \/ AppCloseDB

SqlSpec == SqlSpecInit /\ [][SqlSpecNext]_vars

\* ======================================= the loop's broker connection
\* Commit's rc and the sendEvent closure with the connections in detail.
\* The store is left out: sendEvent does not touch it.

\* sendEvent: refresh the connection, then one publish attempt
ConnSend ==
    /\ pc = "rc"
    /\ broker.sends < MaxSends
    /\ broker.dials < MaxDials
    /\ \E connOk \in BOOLEAN, pubOk \in BOOLEAN :
         LET b == refreshConnection(broker, connOk)
             ok == PublishEvent(IF b.rc = 0 THEN "nil" ELSE "conn", pubOk)
         IN broker' = [b EXCEPT !.sends = @ + 1,
                                !.pub = IF ok THEN "ok" ELSE "fail"]
    /\ UNCHANGED <<variant, store, chan, nextEv, stable, rc, pc,
                   backingStoreFull, anyBatchDrained, batch, commitTok, sent,
                   published, accepted, last, hist, writers, sqlStore,
                   calls>>

\* five minutes pass since rc.LastConnectedAt
ConnAge ==
    /\ pc = "rc"
    /\ broker.rc # 0
    /\ ~broker.old
    /\ broker' = [broker EXCEPT !.old = TRUE, !.step = "none", !.disc = FALSE,
                                !.pub = "none"]
    /\ UNCHANGED <<variant, store, chan, nextEv, stable, rc, pc,
                   backingStoreFull, anyBatchDrained, batch, commitTok, sent,
                   published, accepted, last, hist, writers, sqlStore,
                   calls>>

\* the broker or the network closes the connection the loop holds
ConnDrop ==
    /\ pc = "rc"
    /\ broker.rc \in broker.open
    /\ broker' = [broker EXCEPT !.open = @ \ {broker.rc}, !.step = "none",
                                !.disc = FALSE, !.pub = "none"]
    /\ UNCHANGED <<variant, store, chan, nextEv, stable, rc, pc,
                   backingStoreFull, anyBatchDrained, batch, commitTok, sent,
                   published, accepted, last, hist, writers, sqlStore,
                   calls>>

\* Commit's first statement: rc, err := newRabbitConnection(...)
ConnInit ==
    /\ variant = "memory"
    /\ store = EmptyStore
    /\ chan = <<>>
    /\ nextEv = 1
    /\ stable = FALSE
    /\ rc = "nil"
    /\ pc = "rc"
    /\ backingStoreFull = FALSE
    /\ anyBatchDrained = FALSE
    /\ batch = <<>>
    /\ commitTok = NoCommit
    /\ sent = 0
    /\ published = {}
    /\ accepted = {}
    /\ last = NoStep
    /\ hist = NoHist
    /\ writers = NoWriters
    /\ sqlStore = NoSqlStore
    /\ calls = NoCalls
    /\ \E connOk \in BOOLEAN :
          broker = [newRabbitConnection(NoBroker, connOk) EXCEPT !.step = "none"]

ConnNext ==
    \/ ConnSend
    \/ ConnAge
    \/ ConnDrop

ConnSpec == ConnInit /\ [][ConnNext]_vars

\* ============== Write, commit and UpdateMetrics calls that overlap in time
\* One task writes, one drains with ReadBatch and commit, one calls
\* UpdateMetrics, on a file store without a total limit and without I/O
\* failures, so that every call returns success. Write and ReadBatch hold
\* s.mu; the commit closure and UpdateMetrics do not take it. cachedTotalSize
\* is an atomic.Int64: Load, Store and Add are single steps.
Busy(c) == {k \in {"w", "u", "c"} : c[k].pc # "idle"}

\* Write from s.mu.Lock() to the return of writeEventToFile
MetWriteAppend ==
    /\ pc = "met"
    /\ calls.w.pc = "idle"
    /\ nextEv <= NumWrites
    /\ \E size \in SizesFor(variant) :
         LET w == FileWrite(store, [id |-> nextEv, size |-> size], "none")
         IN /\ w.err = "nil"
            /\ store' = [w.st EXCEPT !.cachedTotalSize = store.cachedTotalSize]
            /\ calls' = [calls EXCEPT
                  !.w = [pc |-> "appended",
                         size |-> w.st.cachedTotalSize - store.cachedTotalSize],
                  !.overlapped = @ \/ Busy(calls) # {}]
    /\ nextEv' = nextEv + 1
    /\ UNCHANGED <<batch, commitTok>>
    /\ UNCHANGED <<variant, chan, stable, rc, pc, backingStoreFull,
                   anyBatchDrained, sent, published, accepted, last, hist,
                   writers, sqlStore, broker>>

\* Write: s.cachedTotalSize.Add(eventSize), then the deferred Unlock
MetWriteAdd ==
    /\ pc = "met"
    /\ calls.w.pc = "appended"
    /\ store' = [store EXCEPT !.cachedTotalSize = @ + calls.w.size]
    /\ calls' = [calls EXCEPT !.w = NoCalls.w]
    /\ UNCHANGED <<nextEv, batch, commitTok>>
    /\ UNCHANGED <<variant, chan, stable, rc, pc, backingStoreFull,
                   anyBatchDrained, sent, published, accepted, last, hist,
                   writers, sqlStore, broker>>

\* UpdateMetrics: listFiles and calculateTotalSize
MetMeasure ==
    /\ pc = "met"
    /\ calls.u.pc = "idle"
    /\ calls.nu < MaxUpdates
    /\ calls' = [calls EXCEPT
          !.u = [pc |-> "measured",
                 total |-> FileUpdateMetrics(store, "none").st.cachedTotalSize],
          !.nu = @ + 1,
          !.overlapped = @ \/ Busy(calls) # {}]
    /\ UNCHANGED <<store, nextEv, batch, commitTok>>
    /\ UNCHANGED <<variant, chan, stable, rc, pc, backingStoreFull,
                   anyBatchDrained, sent, published, accepted, last, hist,
                   writers, sqlStore, broker>>

\* UpdateMetrics: s.cachedTotalSize.Store(totalSize) and the gauges
MetStore ==
    /\ pc = "met"
    /\ calls.u.pc = "measured"
    /\ store' = [store EXCEPT !.cachedTotalSize = calls.u.total]
    /\ calls' = [calls EXCEPT !.u = NoCalls.u]
    /\ UNCHANGED <<nextEv, batch, commitTok>>
    /\ UNCHANGED <<variant, chan, stable, rc, pc, backingStoreFull,
                   anyBatchDrained, sent, published, accepted, last, hist,
                   writers, sqlStore, broker>>

\* ReadBatch, under s.mu, by the task that drains
MetReadBatch ==
    /\ pc = "met"
    /\ calls.w.pc = "idle"
    /\ calls.c.pc = "idle"
    /\ commitTok = NoCommit
    /\ listFiles(store) # {}
    /\ LET r == FileReadBatch(store, "none", FALSE)
       IN /\ r.err = "nil"
          /\ store' = r.st
          /\ batch' = r.events
          /\ commitTok' = r.commit
    /\ UNCHANGED <<nextEv, calls>>
    /\ UNCHANGED <<variant, chan, stable, rc, pc, backingStoreFull,
                   anyBatchDrained, sent, published, accepted, last, hist,
                   writers, sqlStore, broker>>

\* the commit closure: getFileSize(path) and os.Remove(path)
MetRemove ==
    /\ pc = "met"
    /\ calls.c.pc = "idle"
    /\ commitTok # NoCommit
    /\ LET c == FileCommit(store, commitTok, "none")
       IN /\ c.err = "nil"
          /\ store' = [c.st EXCEPT !.cachedTotalSize = store.cachedTotalSize]
          /\ calls' = [calls EXCEPT
                !.c = [pc |-> "removed",
                       size |-> store.cachedTotalSize - c.st.cachedTotalSize],
                !.overlapped = @ \/ Busy(calls) # {}]
    /\ UNCHANGED <<nextEv, batch, commitTok>>
    /\ UNCHANGED <<variant, chan, stable, rc, pc, backingStoreFull,
                   anyBatchDrained, sent, published, accepted, last, hist,
                   writers, sqlStore, broker>>

\* the commit closure: s.cachedTotalSize.Add(-fileSize) and the return
MetSubtract ==
    /\ pc = "met"
    /\ calls.c.pc = "removed"
    /\ store' = [store EXCEPT !.cachedTotalSize = @ - calls.c.size]
    /\ calls' = [calls EXCEPT !.c = NoCalls.c]
    /\ batch' = <<>>
    /\ commitTok' = NoCommit
    /\ UNCHANGED nextEv
    /\ UNCHANGED <<variant, chan, stable, rc, pc, backingStoreFull,
                   anyBatchDrained, sent, published, accepted, last, hist,
                   writers, sqlStore, broker>>

MetricsInit ==
    /\ variant = "file"
    /\ store = FileInit(EmptyStore, None)
    /\ chan = <<>>
    /\ nextEv = 1
    /\ stable = FALSE
    /\ rc = "nil"
    /\ pc = "met"
    /\ backingStoreFull = FALSE
    /\ anyBatchDrained = FALSE
    /\ batch = <<>>
    /\ commitTok = NoCommit
    /\ sent = 0
    /\ published = {}
    /\ accepted = {}
    /\ last = NoStep
    /\ hist = NoHist
    /\ writers = NoWriters
    /\ sqlStore = NoSqlStore
    /\ broker = NoBroker
    /\ calls = NoCalls

MetricsNext ==
    \/ MetWriteAppend
    \/ MetWriteAdd
    \/ MetMeasure
    \/ MetStore
    \/ MetReadBatch
    \/ MetRemove
    \/ MetSubtract

MetricsSpec == MetricsInit /\ [][MetricsNext]_vars

\* ================================================================= claims

\* C1: an event the loop has taken from EventSink is never discarded because
\* the backing store is full: whenever Write rejects an event with the
\* store-full error, the event is retained, i.e. after that step it is
\* still in the store or has reached the broker (the loop has no other place
\* to keep it). The code logs the error and forgets the event.
C1_FullNeverDiscards ==
    (last.op \in {"recv", "read", "send"} /\ last.werr = "full")
        => (last.ev \in StoredIds(store) \cup published)

\* C2: while the backpressure flag is set, the store having been found full
\* and no drain pass having drained a batch since, the loop takes no event
\* from EventSink in any step, the steps of a drain pass included. The
\* polls of drainBackingStore read EventSink whatever the flag says.
C2_NoIntakeWhileFull ==
    [][(backingStoreFull /\ hist.byFull) => Len(chan') >= Len(chan)]_vars

\* C3: the commit returned by ReadBatch removes exactly the events of that
\* batch: an event that Write accepted after the ReadBatch and before the
\* commit is still in the store after the commit. The commit of the
\* in-memory store clears the whole buffer.
C3_CommitRemovesOnlyBatch ==
    (pc = "api" /\ last.op = "commit" /\ last.cerr = "nil")
        => (hist.since \subseteq StoredIds(store))

\* C9: the loop sets the backpressure flag only when Write failed with the
\* store-full error; any other Write error leaves the flag alone. The code
\* sets the flag on every error of Write.
C9_FlagOnlyOnStoreFull ==
    [][(~backingStoreFull /\ backingStoreFull') => last'.werr = "full"]_vars

\* C4: at-least-once delivery: every event for which Write returned success
\* is eventually published, provided that from some point on the broker
\* accepts every publish, the store operations succeed and the drain ticks
\* keep firing (FairSpec); events written during a drain pass included.
\* With the in-memory store an event written during a pass is wiped by the
\* commit of the batch in flight (see C3) and never published.
C4_AtLeastOnce ==
    \A id \in EventIds : (id \in accepted) ~> (id \in published)

\* C5: ReadBatch by itself removes nothing: if the commit of a ReadBatch is
\* never invoked, the next ReadBatch returns every event of that batch
\* again, in the same order (the same events or a superset).
C5_UncommittedReadRepeats ==
    (pc = "api" /\ last.op = "read" /\ last.rerr = "nil" /\ hist.prev # <<>>)
        => SelectSeqBy(batch, Range(hist.prev)) = hist.prev

\* C5 witness: a second ReadBatch after an uncommitted one, with a Write in
\* between, returned the earlier batch and one event more
C5_Witness ==
    /\ pc = "api" /\ last.op = "read" /\ last.rerr = "nil"
    /\ hist.prev # <<>>
    /\ Len(batch) > Len(hist.prev)

\* C6: FIFO: one writer writes E1..En in order, then ReadBatch and commit
\* are called until the store is empty: the concatenation of the batches is
\* E1..En, for every n >= 0 and every store variant.
C6_FIFO ==
    (pc = "api" /\ hist.order # "x" /\ commitTok.kind = "none"
        /\ StoredIds(store) = {})
        => hist.out = [i \in 1..(nextEv - 1) |-> i]

\* C6 witness: all events were written and then read back in more than one
\* batch
C6_Witness ==
    /\ pc = "api" /\ hist.order = "r" /\ commitTok.kind = "none"
    /\ StoredIds(store) = {}
    /\ Len(hist.out) >= 2
    /\ Len(batch) < Len(hist.out)

\* C7 as claimed: for every store variant, once the store holds its
\* configured maximum the next Write returns the store-full error, and
\* after a ReadBatch whose commit removed at least one event the next Write
\* succeeds again. Stated for the runs in which no call fails for another
\* reason than a full store.
C7_Capacity ==
    (pc = "api" /\ ~hist.faulted) =>
        \A size \in SizesFor(variant) :
            /\ HoldsMax(variant, store) => WriteResult(variant, store, size) = "full"
            /\ (last.op = "commit" /\ last.cerr = "nil" /\ hist.removed >= 1
                    /\ hist.atMax)
                   => WriteResult(variant, store, size) = "nil"

\* C7 amended: the claim holds for the in-memory and the SQL store. The file
\* store counts bytes in its cached total size: once the cached total size
\* has reached max_total_size the next Write returns the store-full error,
\* and after a commit that removed at least one event the next Write
\* succeeds if and only if the cached total size is below max_total_size.
C7_CapacityAmended ==
    pc = "api" =>
        \A size \in SizesFor(variant) :
            LET afterCommit == last.op = "commit" /\ last.cerr = "nil"
                                 /\ hist.removed >= 1 /\ hist.atMax
            IN IF variant = "file"
               THEN /\ (FileMaxTotalSize > 0
                           /\ store.cachedTotalSize >= FileMaxTotalSize)
                        => WriteResult(variant, store, size) = "full"
                    /\ afterCommit =>
                         (WriteResult(variant, store, size) = "nil"
                            <=> store.cachedTotalSize < FileMaxTotalSize)
               ELSE /\ HoldsMax(variant, store)
                        => WriteResult(variant, store, size) = "full"
                    /\ afterCommit => WriteResult(variant, store, size) = "nil"

\* C7 witness: a full store, then ReadBatch and a commit that removed an
\* event, after which Write succeeds
C7_Witness ==
    /\ pc = "api" /\ last.op = "commit" /\ last.cerr = "nil"
    /\ hist.removed >= 1 /\ hist.atMax
    /\ \A size \in SizesFor(variant) : WriteResult(variant, store, size) = "nil"

\* C8: no partial commit: in a drain pass the commit of a batch is invoked
\* only after every event of the batch was published in this pass; if a
\* publish fails, commit is not invoked, the store still holds the whole
\* batch and the pass ends without another ReadBatch or publish.
C8_NoPartialCommit ==
    /\ (last.op = "send" /\ last.cerr # "none")
           => (last.pub = "ok" /\ last.sent = Len(last.batch)
                 /\ Range(last.batch) \subseteq published)
    /\ (last.op = "send" /\ last.pub = "fail")
           => (last.cerr = "none" /\ pc = "select" /\ last.sent < Len(last.batch)
                 /\ Range(last.batch) \subseteq StoredIds(store))
    /\ (last.op = "read" /\ last.cerr # "none") => last.batch = <<>>

\* C8 witness: the publish of the second event of a batch failed after the
\* first one had been published
C8_Witness ==
    /\ last.op = "send" /\ last.pub = "fail"
    /\ last.sent >= 1
    /\ Len(last.batch) >= 2

\* C11: in the file store reads and writes never target the same file: once
\* ReadBatch has returned the contents of a file F, no later step changes
\* the events F holds while F exists, and a successful commit removes only
\* events of the batch the task holds.
C11_ReadWriteDisjoint ==
    [][(pc = "api" /\ variant = "file") =>
          /\ \A f \in hist.readFiles :
                 (f \in DOMAIN store.files /\ f \in DOMAIN store'.files)
                    => ParsedEvents(store'.files[f]) = ParsedEvents(store.files[f])
          /\ (last'.op = "commit" /\ last'.cerr = "nil")
                 => (StoredIds(store) \ StoredIds(store')) \subseteq Range(IdsOf(batch))
      ]_vars

\* C11 witness: ReadBatch returned the file that was open for writing and
\* not yet due for rotation, and the next Write went into a new file
C11_Witness ==
    /\ pc = "api" /\ variant = "file"
    /\ last.op = "write" /\ last.werr = "nil"
    /\ \E f \in hist.readFiles :
          /\ f \in DOMAIN store.files
          /\ FileSizeOf(store.files[f]) < FileMaxFileSize
          /\ store.currentFile \in DOMAIN store.files
          /\ store.currentFile # f

\* C12: round trip in the file store: a ReadBatch that no I/O failure
\* disturbs succeeds and returns every event of the file it reads for which
\* Write returned success, equal to the event written, whatever its
\* serialized size. A line longer than the scanner's buffer makes every
\* ReadBatch of its file fail with bufio.ErrTooLong.
C12_FileRoundTrip ==
    (pc = "api" /\ variant = "file" /\ last.op = "read"
        /\ last.rerr \in {"nil", "toolong"} /\ listFiles(store) # {})
        => /\ last.rerr = "nil"
           /\ \A e \in hist.written :
                  Marshal(e) \in Range(store.files[SetMin(listFiles(store))])
                      => e \in Range(batch)

\* C13: the loop never returns because of failures: whatever publish,
\* Write, ReadBatch, commit and UpdateMetrics errors have occurred, Commit
\* is still inside its for loop (waiting in the select or inside a drain
\* pass) and its next iteration can be taken.
C13_LoopNeverReturns ==
    pc # "api" =>
        /\ pc \in {"select", "drain", "send"}
        /\ ENABLED (MetricsTick \/ DrainTick \/ DrainRead \/ DrainSend)

\* C13 witness: the publish and the Write of an event have failed, then the
\* ReadBatch of the next drain pass, and the loop is back in its select
C13_Witness ==
    /\ pc = "select"
    /\ backingStoreFull
    /\ last.op = "read" /\ last.rerr = "err"

\* C14: the in-memory store never holds more than max_events events, in
\* every reachable state, whatever calls of Write, ReadBatch, commit and
\* UpdateMetrics were made (every method runs under the store's mutex, so
\* concurrent calls take effect one after the other).
C14_MemoryCap ==
    (pc = "api" /\ variant = "memory") => Len(store.events) <= MemMaxEvents

\* C14 witness: the buffer holds max_events events and a Write was refused
C14_Witness ==
    /\ pc = "api" /\ variant = "memory"
    /\ Len(store.events) = MemMaxEvents
    /\ last.op = "write" /\ last.werr = "full"

\* C15: in the file store with max_total_size = L > 0, after any sequence of
\* Write, ReadBatch, commit and UpdateMetrics calls (no line is put into the
\* files from outside), the total size of the event files on disk exceeds L
\* by less than the serialized size of one event.
C15_TotalSizeBound ==
    (pc = "api" /\ variant = "file" /\ FileMaxTotalSize > 0 /\ hist.ngarb = 0)
        => calculateTotalSize(store, listFiles(store))
               < FileMaxTotalSize + (MaxEventSize + 1)

\* C15 in the runs in which no call has failed for another reason than a
\* full store: the bound holds there
C15_TotalSizeBoundNoFault ==
    (pc = "api" /\ variant = "file" /\ FileMaxTotalSize > 0 /\ ~hist.faulted)
        => /\ store.cachedTotalSize = calculateTotalSize(store, listFiles(store))
           /\ calculateTotalSize(store, listFiles(store))
                  < FileMaxTotalSize + (MaxEventSize + 1)

\* C16: concurrent writers: when the tasks write their events concurrently
\* into a store whose capacity is at least the number of events they write
\* together, every Write succeeds, and the drain by one task that follows
\* (ReadBatch and commit until ReadBatch returns nothing) yields exactly
\* those events, each once. Whatever the capacity, the drain yields exactly
\* the events whose Write succeeded, each once.
C16_ConcurrentWriters ==
    pc = "conc" =>
        LET okIds == UNION {writers[t].ok : t \in Tasks}
            allIds == {EventOf(t, j).id : t \in Tasks, j \in 1..EventsPerTask}
            fits == CapacityInEvents(variant) >= TotalEvents
            drained == AllReturned /\ commitTok = NoCommit
                         /\ last.op = "read" /\ last.rerr = "nil"
                         /\ last.batch = <<>>
        IN /\ fits => \A t \in Tasks : ~writers[t].failed
           /\ drained => /\ Range(hist.out) = okIds
                         /\ Len(hist.out) = Cardinality(okIds)
           /\ (drained /\ fits)
                => /\ Len(hist.out) = TotalEvents
                   /\ Range(hist.out) \subseteq allIds

\* C16 witness: every task had an event to write, the events fitted into
\* the store, a task entered Write while another was inside it, the events
\* were stored in another order than that of the tasks, and the drain has
\* ended with all the events
C16_Witness ==
    /\ pc = "conc"
    /\ CapacityInEvents(variant) >= TotalEvents
    /\ \A t \in Tasks : writers[t].quota >= 1
    /\ AllReturned /\ commitTok = NoCommit
    /\ last.op = "read" /\ last.batch = <<>>
    /\ Len(hist.out) = TotalEvents
    /\ hist.overlap
    /\ \E i, j \in DOMAIN hist.out : i < j /\ hist.out[i] > hist.out[j]

C17_LoopCommitsEmptyBatch ==
    [][(pc = "drain" /\ last'.op = "read" /\ last'.rerr = "nil"
           /\ last'.cerr = "nil")
          => /\ listFiles(store) # {}
                   => SetMin(listFiles(store)) \notin listFiles(store')
             /\ pc' = "select"
      ]_vars

\* the loop has committed the empty batch of the leftover file
C17_LoopWitness ==
    /\ last.op = "read" /\ last.rerr = "nil" /\ last.cerr = "nil"
    /\ 1 \notin listFiles(store)

\* C18: durability ordering in the file store: Write returns success only
\* after os.OpenFile, json.Marshal, f.Write, f.Sync and f.Close have each
\* returned without an error, in that order, and the event's line is then
\* the last line of the current file; if open, marshal, write, sync or close
\* fails, Write returns an error, and whenever Write returns an error
\* neither the cached total size nor the write counter changes. The first
\* part is about the Write a task could make next in any reachable state,
\* the second about the Write just made.
C18_DurabilityOrdering ==
    (pc = "api" /\ variant = "file") =>
        /\ \A f \in WriteFaults("file"), size \in SizesFor("file") :
              LET w == FileWrite(store, [id |-> 0, size |-> size], f)
              IN /\ w.err = "nil"
                      => /\ w.done = <<"open", "marshal", "write", "sync", "close">>
                         /\ w.counted
                         /\ w.st.cachedTotalSize > store.cachedTotalSize
                 /\ f \in {"open", "marshal", "io", "sync", "close"}
                      => w.err # "nil"
                 /\ w.err # "nil"
                      => /\ w.st.cachedTotalSize = store.cachedTotalSize
                         /\ ~w.counted
        /\ (last.op = "write" /\ last.werr = "nil")
              => /\ store.currentFile \in DOMAIN store.files
                 /\ LET lines == store.files[store.currentFile]
                    IN lines[Len(lines)].kind = "json"
                         /\ lines[Len(lines)].id = last.ev

\* C18 witness: a Write has failed after its line was appended (f.Sync or
\* f.Close failed): the line is on disk and the cached total size does not
\* count it
C18_Witness ==
    /\ pc = "api" /\ variant = "file"
    /\ last.op = "write" /\ last.werr = "err"
    /\ store.cachedTotalSize = 0
    /\ \E f \in DOMAIN store.files :
          \E i \in DOMAIN store.files[f] : store.files[f][i].id = last.ev

\* C19: SQL identifier validation: Init of the SQL store succeeds only if
\* the configured table name, with an empty name replaced by the default
\* audit_events first, matches ^[A-Za-z_][A-Za-z0-9_]*$; for any other name
\* Init returns the invalid-table-name error and no SQL statement that
\* contains the name is executed, by Init or later.
C19_IdentifierValidation ==
    pc = "sql" =>
        LET name == IF sqlStore.configured = <<>>
                    THEN DefaultTableName ELSE sqlStore.configured
            matches == /\ Len(name) >= 1
                       /\ name[1] \in {"a", "_"}
                       /\ \A i \in DOMAIN name : name[i] \in {"a", "7", "_"}
        IN /\ sqlStore.inited = "nil" => matches
           /\ (sqlStore.inited # "no" /\ sqlStore.db # "nil" /\ ~matches)
                => /\ sqlStore.inited = "invalid table name"
                   /\ sqlStore.executed = {}
           /\ ~matches => \A x \in sqlStore.executed : x.table # name
           /\ \A x \in sqlStore.executed : x.table = name

\* C19 witness: Init has refused a name that begins like an identifier and
\* has another character after that, and nothing was executed
C19_Witness ==
    /\ pc = "sql"
    /\ sqlStore.inited = "invalid table name"
    /\ Len(sqlStore.configured) >= 2
    /\ sqlStore.configured[1] \in {"a", "_"}
    /\ ~sqlStore.SkipMigration
    /\ sqlStore.executed = {}

\* C20: Close of the SQL store leaves the injected database handle open and
\* usable: after any sequence of store operations followed by Close the
\* store has not closed the handle, and the application can go on using it
\* until it closes the handle itself.
C20_CloseLeavesHandleOpen ==
    pc = "sql" =>
        /\ sqlStore.db # "closedByStore"
        /\ (sqlStore.closed /\ sqlStore.db # "closedByApp")
              => /\ sqlStore.db = "open"
                 /\ ENABLED AppCloseDB
                 /\ ~sqlStore.appUsed => ENABLED AppQuery

\* C20 witness: the store ran statements, was closed, and the application
\* then used the handle
C20_Witness ==
    /\ pc = "sql"
    /\ sqlStore.closed
    /\ \E x \in sqlStore.executed : x.stmt = "insert"
    /\ sqlStore.appUsed
    /\ sqlStore.db = "open"

\* C21: in the SQL store ReadBatch returns at most batch_size events, the
\* oldest rows in (created_at, id) order, and the commit function deletes
\* exactly the rows of that batch, so that successive ReadBatch+commit calls
\* return the buffered rows in consecutive chunks of batch_size. Stated for
\* a table in which every row holds an encoded event.
C21_SqlBatches ==
    (pc = "api" /\ variant = "sql" /\ hist.ngarb = 0) =>
        LET rows == Range(store.rows)
            B == {r \in rows : r.id \in commitTok.ids}
            older(a, b) == a.created_at < b.created_at
                             \/ (a.created_at = b.created_at /\ a.id < b.id)
            n == IF Len(store.rows) < SqlBatchSize
                 THEN Len(store.rows) ELSE SqlBatchSize
        IN /\ (last.op = "read" /\ last.rerr = "nil")
                => /\ Len(batch) = n
                   /\ Cardinality(B) = n
                   /\ \A b \in B, o \in rows \ B : older(b, o)
                   /\ \A i \in DOMAIN batch :
                         \E b \in B :
                            /\ b.event_data = Marshal(batch[i])
                            /\ Cardinality({o \in B : older(o, b)}) = i - 1
           /\ commitTok.kind = "sql"
                => LET c == Commit(store, commitTok, "none")
                   IN /\ c.err = "nil"
                      /\ Range(c.st.rows) = rows \ B
           /\ (hist.order = "r" /\ commitTok.kind = "none" /\ store.rows = <<>>)
                => hist.out = [i \in 1..(nextEv - 1) |-> i]

\* C21 witness: a second chunk has been read after the first was committed,
\* while a row written after the first ReadBatch is still waiting
C21_Witness ==
    /\ pc = "api" /\ variant = "sql" /\ hist.ngarb = 0
    /\ last.op = "read" /\ last.rerr = "nil"
    /\ hist.order = "r"
    /\ Len(batch) = SqlBatchSize
    /\ Len(hist.out) > Len(batch)

\* C22: if a drain pass removes at least one batch from the backing store,
\* the backpressure flag is cleared when the pass ends and the loop selects
\* on the inbound channel again in its next iteration: a commit after which
\* the store no longer holds the batch sets anyBatchDrained, the pass keeps
\* it until it returns, the return with anyBatchDrained clears the flag,
\* and with the flag clear a waiting event can be received.
C22_FlagClearedAfterDrain ==
    /\ [][/\ (pc = "send" /\ pc' = "drain"
                /\ Range(IdsOf(batch)) \cap StoredIds(store') = {})
             => anyBatchDrained'
          /\ (anyBatchDrained /\ pc' # "select") => anyBatchDrained'
          /\ (pc \in {"drain", "send"} /\ anyBatchDrained /\ pc' = "select")
             => ~backingStoreFull']_vars
    /\ []((pc = "select" /\ ~backingStoreFull /\ chan # <<>>)
             => ENABLED RecvMain)

\* C22 witness: the flag is set, the pass has removed a batch, and nothing
\* is left to read, so the next iteration ends the pass
C22_Witness ==
    /\ pc = "drain" /\ backingStoreFull /\ anyBatchDrained
    /\ StoredIds(store) = {}
    /\ chan # <<>>

\* C23: during a drain pass every event the loop takes from the inbound
\* channel is handed to BackingStore.Write and is not published directly
\* in that pass; it reaches the broker only by being read back from the
\* store: a step of the pass that takes an event calls Write for it and
\* does not publish it, and whatever a step of the pass publishes is an
\* event of the batch ReadBatch returned, never the event at the head of
\* the channel.
C23_DrainWritesNewEvents ==
    [][(pc \in {"drain", "send"}) =>
          /\ (chan # <<>> /\ chan' = Tail(chan))
                => /\ last'.ev = Head(chan).id
                   /\ last'.werr # "none"
                   /\ Head(chan).id \notin published'
                   /\ (last'.werr = "nil") => Head(chan).id \in accepted'
          /\ \A id \in published' \ published :
                /\ pc = "send"
                /\ id = batch[sent + 1].id
                /\ chan # <<>> => id # Head(chan).id]_vars

\* C23 witness: a step of a drain pass has published an event of its batch
\* and has written the event it took from the channel to the store
C23_Witness ==
    /\ last.op = "send" /\ last.pub = "ok"
    /\ last.ev # 0 /\ last.werr = "nil"
    /\ last.ev \notin published
    /\ last.ev \in StoredIds(store)

\* C24: connection refresh: before every publish attempt the loop keeps its
\* broker connection only if it is open and was established less than 5
\* minutes ago; otherwise it replaces it by a new connection, after
\* disconnecting the old one when that was still open, so the loop never
\* holds more than one open connection, and when reconnecting fails it
\* holds none.
C24_ConnectionRefresh ==
    /\ [][(pc = "rc" /\ broker'.sends = broker.sends + 1) =>
             LET open  == broker.rc # 0 /\ broker.rc \in broker.open
                 fresh == open /\ ~broker.old
             IN /\ fresh => (broker'.rc = broker.rc /\ broker'.open = broker.open)
                /\ ~fresh =>
                     /\ broker'.rc # broker.rc \/ broker'.rc = 0
                     /\ broker.rc \notin broker'.open
                     /\ broker'.rc # 0 =>
                           (broker'.rc > broker.dials /\ broker'.rc \in broker'.open)
                     /\ broker'.dials = broker.dials =>
                           (broker'.rc = 0 /\ broker'.open = {}
                              /\ broker'.pub = "fail")
                /\ broker'.disc = (open /\ broker.old)]_vars
    /\ [](pc = "rc" =>
             /\ Cardinality(broker.open) <= 1
             /\ broker.open \subseteq {broker.rc})

\* C24 witness: a publish attempt found its open connection too old,
\* disconnected it and went on with a new one, after an earlier reconnect
C24_Witness ==
    /\ pc = "rc"
    /\ broker.step = "connected" /\ broker.disc
    /\ broker.dials >= 2
    /\ broker.open = {broker.rc}
    /\ broker.pub = "ok"

\* C25: publish order is not strict: an event received later can be
\* published before an event that was received earlier and is still
\* buffered in the backing store. Whenever the loop is at its select with
\* the flag clear, an event waiting on the channel and an earlier,
\* unpublished event in the store, the step that publishes the waiting
\* event at once and leaves the store as it is can be taken.
C25_OrderNotStrict ==
    (/\ pc = "select" /\ ~backingStoreFull /\ chan # <<>>
     /\ \E id \in StoredIds(store) \ published : id < Head(chan).id)
        => ENABLED (/\ RecvMain
                    /\ published' = published \cup {Head(chan).id}
                    /\ store' = store)

\* C25 witness: the loop has just published an event while an event with a
\* smaller ID, received earlier, is in the store and was never published
C25_Witness ==
    /\ last.op = "recv" /\ last.pub = "ok"
    /\ \E i \in StoredIds(store) \ published :
       \E j \in published : i < j

\* C26: ReadBatch on an empty store is not an error: for every store
\* variant it returns no events, a nil commit function and a nil error, and
\* it changes nothing in the store. Empty: no buffered event in the memory
\* store, no event file in the directory of the file store, no row in the
\* table of the SQL store. A call whose directory listing or query fails
\* returns that error, and also changes nothing.
C26_EmptyRead ==
    (/\ pc = "api"
     /\ CASE variant = "memory" -> store.events = <<>>
          [] variant = "file"   -> listFiles(store) = {}
          [] variant = "sql"    -> store.rows = <<>>)
        => /\ \A fault \in ReadFaults(variant), dlFail \in BOOLEAN :
                LET r == ReadBatch(variant, store, fault, dlFail)
                IN /\ r.events = <<>>
                   /\ r.commit = NoCommit
                   /\ r.st = store
                   /\ (fault \in {"none", "open", "scan"} /\ variant # "sql")
                         => r.err = "nil"
                   /\ fault = "none" => r.err = "nil"
           /\ (last.op = "read" /\ last.rerr = "nil")
                => (batch = <<>> /\ commitTok = NoCommit)

\* C26 witness: ReadBatch has returned nil, nil, nil on a file store whose
\* directory holds no event file after events were written and drained
C26_Witness ==
    /\ pc = "api" /\ variant = "file"
    /\ listFiles(store) = {}
    /\ hist.order = "r" /\ Len(hist.out) >= 1
    /\ last.op = "read" /\ last.rerr = "nil"
    /\ batch = <<>> /\ commitTok = NoCommit

\* C27: in the file store with max_total_size unset or set to 0, Write
\* never returns the store-full error, however many bytes are buffered:
\* Init turns an unset limit into 0, no Write of the tasks returns the
\* error, and in every state they reach no Write would, with any event and
\* any I/O outcome.
C27_UnlimitedNeverFull ==
    (pc = "api" /\ variant = "file") =>
        /\ \A opt \in {None, Some(0)} :
              FileInit(EmptyStore, opt).MaxTotalSize = Some(0)
        /\ store.MaxTotalSize = Some(0)
        /\ last.op = "write" => last.werr # "full"
        /\ \A size \in SizesFor(variant), fault \in WriteFaults(variant) :
              Write(variant, store, [id |-> nextEv, size |-> size], fault, 0).err
                 # "full"

\* C27 witness: a Write has succeeded on a store that held at least
\* FileMaxTotalSize bytes before it, where a store with that limit is full
C27_Witness ==
    /\ pc = "api" /\ variant = "file"
    /\ store.MaxTotalSize = Some(0)
    /\ last.op = "write" /\ last.werr = "nil"
    /\ calculateTotalSize(store, listFiles(store)) >= 2 * FileMaxTotalSize
    /\ checkTotalSizeLimit(store, FileMaxTotalSize) = "full"

\* C28: event life cycle in the main loop: every event received from the
\* inbound channel outside a drain pass gets exactly one immediate publish
\* attempt; if it succeeds the event is not written to the backing store,
\* and if it fails BackingStore.Write is called for the event exactly once
\* (a Write that returns nil has added one record, the event's).
C28_MainLoopLifeCycle ==
    [][(pc = "select" /\ chan # <<>> /\ chan' = Tail(chan)) =>
          LET e == Head(chan)
              NRec(st) == Len(st.events) + Len(st.rows)
                          + Cardinality(UNION {{<<f, i>> : i \in DOMAIN st.files[f]} :
                                                  f \in DOMAIN st.files})
          IN /\ last'.op = "recv"
             /\ last'.pub \in {"ok", "fail"}
             /\ e.id \notin published
             /\ last'.pub = "ok"
                  => /\ published' = published \cup {e.id}
                     /\ last'.werr = "none"
                     /\ store' = store
                     /\ accepted' = accepted
             /\ last'.pub = "fail"
                  => /\ published' = published
                     /\ last'.ev = e.id
                     /\ last'.werr # "none"
                     /\ last'.werr = "nil"
                          => /\ NRec(store') = NRec(store) + 1
                             /\ e.id \in StoredIds(store')
                             /\ accepted' = accepted \cup {e.id}
                     /\ last'.werr = "full"
                          => (NRec(store') = NRec(store) /\ accepted' = accepted)]_vars

\* C28 witness: the loop has just buffered an event whose publish failed,
\* after it had published an earlier event directly without buffering it
C28_Witness ==
    /\ last.op = "recv" /\ last.pub = "fail" /\ last.werr = "nil"
    /\ last.ev \in StoredIds(store)
    /\ \E j \in published : j \notin accepted /\ j < last.ev

\* C29: in the file store a Write rejected with the store-full error
\* changes nothing on disk: no file is created, no bytes are appended, the
\* number of event files and the cached total size are the same as before
\* the call. In every state the tasks reach, a Write that returns the error
\* leaves the files, their contents, the dead-letter records and the
\* cached size as they were, and has made none of the file system calls of
\* writeEventToFile.
C29_FullWriteChangesNothing ==
    (pc = "api" /\ variant = "file") =>
        \A size \in SizesFor(variant), fault \in WriteFaults(variant) :
           LET w == Write(variant, store, [id |-> nextEv, size |-> size], fault, 0)
           IN w.err = "full" =>
                 /\ w.st.files = store.files
                 /\ w.st.cachedTotalSize = store.cachedTotalSize
                 /\ w.st.deadLetters = store.deadLetters
                 /\ w.done = <<>>
                 /\ ~w.counted

\* C29 witness: a Write has just been rejected as full by a store with
\* several event files, and the next Write would be rejected again
C29_Witness ==
    /\ pc = "api" /\ variant = "file"
    /\ last.op = "write" /\ last.werr = "full"
    /\ Cardinality(listFiles(store)) >= 2
    /\ store.currentFile \notin listFiles(store)
    /\ Write(variant, store, [id |-> nextEv, size |-> 1], "none", 0).err = "full"

\* C30: rotation in the file store: Write never appends to a file whose
\* size is already at least max_file_size but starts a new file instead, so
\* every event file is smaller than max_file_size plus the size of its last
\* record; while the current file is below max_file_size and has not been
\* returned by ReadBatch, consecutive Writes go to that same file. The size
\* bound is stated for files that hold only what Write appended.
C30_Rotation ==
    (pc = "api" /\ variant = "file") =>
        /\ hist.ngarb = 0 =>
              \A f \in DOMAIN store.files :
                 store.files[f] # <<>> =>
                    FileSizeOf(store.files[f])
                       < FileMaxFileSize
                         + LineSize(store.files[f][Len(store.files[f])])
        /\ store.currentFile \notin hist.readFiles
        /\ \A size \in SizesFor(variant), fault \in WriteFaults(variant) :
              LET e == [id |-> nextEv, size |-> size]
                  w == Write(variant, store, e, fault, 0)
                  cur == store.currentFile
              IN /\ \A f \in DOMAIN store.files :
                       /\ f \in DOMAIN w.st.files
                       /\ FileSizeOf(store.files[f]) >= FileMaxFileSize
                             => w.st.files[f] = store.files[f]
                 /\ (cur \in DOMAIN store.files
                       /\ FileSizeOf(store.files[cur]) >= FileMaxFileSize
                       /\ w.err = "nil")
                      => /\ w.st.currentFile \notin DOMAIN store.files
                         /\ w.st.files[w.st.currentFile] = <<Marshal(e)>>
                 /\ (cur \in DOMAIN store.files
                       /\ FileSizeOf(store.files[cur]) < FileMaxFileSize
                       /\ w.err = "nil")
                      => /\ w.st.currentFile = cur
                         /\ DOMAIN w.st.files = DOMAIN store.files
                         /\ w.st.files[cur] = Append(store.files[cur], Marshal(e))
                         /\ \A f \in DOMAIN store.files \ {cur} :
                               w.st.files[f] = store.files[f]

\* C30 witness: the second Write found the file of the first at
\* max_file_size and started a new file, and the next Write of a small
\* event would go to that new file
C30_Witness ==
    /\ pc = "api" /\ variant = "file"
    /\ hist.order = "w" /\ hist.ngarb = 0 /\ ~hist.faulted
    /\ last.op = "write" /\ last.werr = "nil"
    /\ Cardinality(listFiles(store)) = 2
    /\ \E f \in listFiles(store) :
          f # store.currentFile /\ FileSizeOf(store.files[f]) >= FileMaxFileSize
    /\ store.currentFile \in listFiles(store)
    /\ FileSizeOf(store.files[store.currentFile]) < FileMaxFileSize

\* C31: in the file store, after any interleaving of concurrent Write,
\* commit and UpdateMetrics calls that all return success, once all of them
\* have returned the cached total size equals the sum of the sizes of the
\* event files on disk. The code lets an UpdateMetrics store a total that
\* a Write or a commit has meanwhile made stale.
C31_CachedSizeAfterConcurrentCalls ==
    (pc = "met" /\ Busy(calls) = {})
        => store.cachedTotalSize = calculateTotalSize(store, listFiles(store))

\* C31, calls one after another: when no call began while another was in
\* progress, the cached total size equals the size on disk
C31_CachedSizeSequential ==
    (pc = "met" /\ Busy(calls) = {} /\ ~calls.overlapped)
        => store.cachedTotalSize = calculateTotalSize(store, listFiles(store))

\* C31, sequential case reached: two Writes, a ReadBatch with its commit and
\* an UpdateMetrics have run one after another
C31_SequentialWitness ==
    /\ pc = "met" /\ Busy(calls) = {} /\ ~calls.overlapped
    /\ nextEv > NumWrites /\ calls.nu >= 1
    /\ commitTok = NoCommit /\ listFiles(store) = {}

\* C32: ReadBatch returns zero events only when nothing deliverable is
\* buffered: in the file store and in the SQL store, if at least one
\* parseable event is stored (in any file or row), a ReadBatch that
\* succeeds returns at least one event, so unparseable records at the head
\* never keep later events from being read. The SQL store returns nothing
\* when the first batch_size rows do not decode, and leaves them in place.
C32_ReadsWhatIsDeliverable ==
    (pc = "api" /\ variant \in {"file", "sql"} /\ StoredIds(store) # {})
        => LET r == ReadBatch(variant, store, "none", FALSE)
           IN r.err = "nil" => r.events # <<>>

\* C32, SQL store: a ReadBatch that returns no events although an event is
\* stored has changed nothing and has returned no commit function, so every
\* later ReadBatch returns the same
C32_SqlHeadStaysInPlace ==
    (pc = "api" /\ variant = "sql" /\ StoredIds(store) # {})
        => LET r == ReadBatch(variant, store, "none", FALSE)
           IN r.events = <<>> => (r.st = store /\ r.commit = NoCommit)

\* C32, SQL store: the state in which the head of the table does not decode
\* and an event is stored behind it has been read from
C32_SqlWedged ==
    /\ pc = "api" /\ variant = "sql" /\ StoredIds(store) # {}
    /\ last.op = "read" /\ last.rerr = "nil" /\ batch = <<>>
    /\ commitTok = NoCommit

\* C33: every drain pass terminates when no new events arrive on the
\* inbound channel, whatever results publish, ReadBatch and commit return:
\* a pass that has begun is eventually back in the loop's select. In the
\* code a commit that keeps failing makes the pass read and publish the
\* same batch again without end.
C33_DrainPassTerminates ==
    (pc \in {"drain", "send"}) ~> (pc = "select")

\* C33, when the failures stop: once publish and the store operations
\* succeed, every pass that has begun ends
C33_DrainPassTerminatesWhenStable ==
    (stable /\ pc \in {"drain", "send"}) ~> (pc = "select")

\* the event with this id waits on EventSink
OnEventSink(id) == \E i \in DOMAIN chan : chan[i].id = id

\* C34: once publishing and the store operations succeed and the tickers keep
\* firing, every event placed on EventSink is eventually taken from it by the
\* loop, also when backingStoreFull was set while the store held no events:
\* the polls of the next drain pass take it
C34_BackpressureReleased ==
    \A id \in EventIds : OnEventSink(id) ~> ~OnEventSink(id)

\* backingStoreFull is set, the store holds nothing and an event waits
C34_Witness ==
    /\ pc = "select"
    /\ stable
    /\ backingStoreFull
    /\ StoredIds(store) = {}
    /\ listFiles(store) = {}
    /\ chan # <<>>

\* C35: a drain pass clears backingStoreFull only if one of its commits
\* has removed a batch from the store
C35_FlagKeptWithoutRemoval ==
    [][(backingStoreFull /\ ~backingStoreFull') => hist.removedInPass]_vars

\* a pass that read and published a batch clears the flag (holds)
C35_FlagKeptWithoutBatch ==
    [][(backingStoreFull /\ ~backingStoreFull') => anyBatchDrained]_vars

\* the tasks that call Write
WritingTasks == {t \in Tasks : writers[t].quota >= 1}

\* C36: soft bound of the SQL store: with k tasks calling Write concurrently
\* the table never holds more than max_events + k - 1 rows; with a single
\* writer (k = 1) never more than max_events
C36_SqlSoftBound ==
    (pc = "conc" /\ variant = "sql" /\ WritingTasks # {})
        => countEvents(store) <= SqlMaxEvents + Cardinality(WritingTasks) - 1

\* C36 witness: every task writes, a task counted the rows while another was
\* between its count and its INSERT, and the table holds max_events + k - 1
\* rows; a later Write has been refused
C36_Witness ==
    /\ pc = "conc" /\ variant = "sql"
    /\ WritingTasks = Tasks
    /\ hist.overlap
    /\ countEvents(store) = SqlMaxEvents + NumTasks - 1
    /\ \E t \in Tasks : writers[t].failed

\* C36, single writer: one task has filled the table to max_events rows
C36_SingleWriterWitness ==
    /\ pc = "conc" /\ variant = "sql"
    /\ Cardinality(WritingTasks) = 1
    /\ countEvents(store) = SqlMaxEvents

\* C37: dead-letter files are outside normal processing in the file store:
\* listFiles keeps exactly the event files, ReadBatch reads an event file
\* and returns events of event files only, leaves the cached total size as
\* it is when it writes dead-letter files, no commit function deletes a
\* dead-letter file, and UpdateMetrics sets the cached total size, the size
\* gauge and the file-count gauge from the event files alone
C37_DeadLettersApart ==
    (pc = "api" /\ variant = "file" /\ store.deadLetters # {}) =>
        /\ {e.name : e \in EventEntries(store)}
               = {EventFileName(p) : p \in listFiles(store)}
        /\ \A dlFail \in BOOLEAN :
              LET r == FileReadBatch(store, "none", dlFail)
              IN /\ r.commit # NoCommit => r.commit.path \in listFiles(store)
                 /\ Range(r.events) \subseteq
                        UNION {Range(ParsedEvents(store.files[p])) :
                                   p \in listFiles(store)}
                 /\ r.st.cachedTotalSize = store.cachedTotalSize
                 /\ store.deadLetters \subseteq r.st.deadLetters
        /\ \A p \in listFiles(store) \cup {commitTok.path} :
              FileCommit(store, [kind |-> "file", path |-> p, ids |-> {}],
                         "none").st.deadLetters = store.deadLetters
        /\ LET u == FileUpdateMetrics(store, "none").st
           IN /\ u.cachedTotalSize = SumSizes(EventEntries(store))
              /\ u.cachedTotalSize < SumSizes(ReadDir(store))
              /\ u.deadLetters = store.deadLetters
              /\ FileGauges(u).size = SumSizes(EventEntries(store))
              /\ FileGauges(u).files = Cardinality(EventEntries(store))
              /\ FileGauges(u).files < Cardinality(ReadDir(store))

\* C37 witness: dead-letter files exist beside an event file, and a commit
\* function has just deleted the event file whose damaged lines they hold
C37_Witness ==
    /\ pc = "api" /\ variant = "file"
    /\ store.deadLetters # {}
    /\ listFiles(store) # {}
    /\ last.op = "commit" /\ last.cerr = "nil"
    /\ \E d \in store.deadLetters : d.raw_data \in hist.delGarbage

\* C10: in the file store a corrupted line is never dropped: whenever a
\* commit has deleted the file of a line that failed to parse, a dead-letter
\* record with the raw bytes of that line exists, also when writing the
\* dead-letter file failed. The code only logs a failed dead-letter write
\* and the commit then deletes the only copy.
C10_CorruptedLineKept ==
    pc = "api" =>
        \A g \in hist.delGarbage : \E d \in store.deadLetters : d.raw_data = g

====
